---- MODULE Spec2Model ----
(***************************************************************************)
(* Evaluation keys (rlwe): compressed/expanded EvaluationKey family and    *)
(* the in-memory EvaluationKeySet.                                         *)
(*                                                                         *)
(* Pointers are modelled explicitly.  A ring element (ringqp.Poly) is a    *)
(* reference into the heap `mem`, because a Go ringqp.Poly holds slices:   *)
(* copying the struct value aliases the coefficients.  A pointer that may  *)
(* be nil is a sequence of length 0 (nil) or 1.                            *)
(***************************************************************************)
EXTENDS Integers, Sequences, FiniteSets, TLC

\* ------------------------------------------------------------------ bounds
MaxKeys == 3
MaxBufs == 1
NSeeds == 2
CoeffMod == 5
MaxGks == 2
NGalEls == 2
NRlks == 2
MaxSets == 1
MaxHandles == 2
NThreads == 2
MaxIoKeys == 2
MaxIoSets == 2
NParties == 2
MaxShares == 3
MaxCkgs == 2
MaxReads == 2
MaxTerms == 2
PMod == 3
MaxPps == 2
MaxCalls == 2
MaxLogN == 4
MaxTables == 2
MaxBootstraps == 3
MaxCts == 2
MaxPolyLevel == 2
NPolyValues == 2
MaxMatLevel == 1
MaxMatRows == 2
MaxMatCols == 2

\* ---------------------------------------------------- scheme parameters
\* Bit sizes of the moduli of the chains Q and P of the parameter set the
\* keys are built for (a toy parameter set: two moduli each).
QBits == <<4, 2>>
PBits == <<3, 3>>
ParamsMaxLevelQ == Len(QBits) - 1
ParamsMaxLevelP == Len(PBits) - 1

\* Evaluation keys: the keys, the expansion buffers, the heap of ring
\* elements and the outcome of the last call.
VARIABLES evks, bufs, mem, res

\* Key sets: the GaloisKey objects, the heap of MemEvaluationKeySet structs,
\* the heap of Go maps, the EvaluationKeySet handles, the phase
\* (populate, then serve) and the evaluator threads.
VARIABLES gks, sets, maps, handles, phase, threads

\* Serialization: the bytes of the last successful WriteTo (with what was
\* written) and the outcome of the last WriteTo or ReadFrom.
VARIABLES wire, io

\* Collective key generation (drlwe): the parameters, the CKGProtocol
\* instances, their Gaussian samplers, the heap of ring elements (secret
\* keys, CRP, shares, public key), what each share is a sum of, and the
\* public key.
VARIABLES params, ckgs, samplers, ring, meta, pk

\* Collective permute (dbfv): the PermuteProtocol instances, the heap of
\* ring elements (scratch polynomials, secret keys, ciphertexts, common
\* reference polynomial, shares), what was generated, aggregated and
\* finalized with which permutation, and the index tables built for
\* several ring degrees.
VARIABLES pps, pring, pmeta, tabs

\* The bootstrapper (ckks), the polynomials of a Copy (ring) and the
\* matrix of polynomials (ringqp).
VARIABLES btp, prows, pols, cp, mat, mop

evkVars == <<evks, bufs, mem, res>>
eksVars == <<gks, sets, maps, handles, phase, threads>>
ioVars == <<wire, io>>
ckgVars == <<params, ckgs, samplers, ring, meta, pk>>
permVars == <<pps, pring, pmeta, tabs>>
btpVars == <<btp>>
polVars == <<prows, pols, cp>>
matVars == <<mat, mop>>
lateVars == <<permVars, btpVars, polVars, matVars>>
notEvkVars == <<eksVars, ioVars, ckgVars, lateVars>>
notEksVars == <<evkVars, ioVars, ckgVars, lateVars>>
notCkgVars == <<evkVars, eksVars, ioVars, lateVars>>
notPermVars == <<evkVars, eksVars, ioVars, ckgVars, btpVars, polVars, matVars>>
notBtpVars == <<evkVars, eksVars, ioVars, ckgVars, permVars, polVars, matVars>>
notPolVars == <<evkVars, eksVars, ioVars, ckgVars, permVars, btpVars, matVars>>
notMatVars == <<evkVars, eksVars, ioVars, ckgVars, permVars, btpVars, polVars>>
vars == <<evkVars, eksVars, ioVars, ckgVars, lateVars>>

Seeds == 1..NSeeds
Coeff == 0..(CoeffMod - 1)

\* ------------------------------------------------- GadgetCiphertext shape
CeilDiv(a, b) == (a + b - 1) \div b

Min(a, b) == IF a < b THEN a ELSE b

RECURSIVE SumBits(_, _)
SumBits(lo, hi) == IF lo > hi THEN 0 ELSE QBits[lo + 1] + SumBits(lo + 1, hi)

\* Number of RNS digits at (levelQ, levelP).
BaseRNSDecompositionVectorSizeOf(levelQ, levelP) ==
    IF levelP = -1 THEN levelQ + 1 ELSE CeilDiv(levelQ + 1, levelP + 1)

\* Bit size of the product of the moduli of RNS digit i (1-based).
DigitBits(i, levelQ, levelP) ==
    LET w == IF levelP = -1 THEN 1 ELSE levelP + 1
    IN SumBits((i - 1) * w, Min(i * w - 1, levelQ))

\* Number of base-2 digits of every RNS digit.
BaseTwoDecompositionVectorSizeOf(levelQ, levelP, b2d) ==
    [i \in 1..BaseRNSDecompositionVectorSizeOf(levelQ, levelP) |->
        IF b2d = 0 THEN 1 ELSE CeilDiv(DigitBits(i, levelQ, levelP), b2d)]

\* A reference to the ring element allocated for cell (i, j), component c,
\* of object `id` of kind `owner`.
Ref(owner, id, i, j, c) == <<owner, id, i, j, c>>

\* NewGadgetCiphertext: the table of references and the zeroed cells.
NewGadgetCiphertext(owner, id, degree, levelQ, levelP, b2d) ==
    LET sizes == BaseTwoDecompositionVectorSizeOf(levelQ, levelP, b2d)
        refs == {Ref(owner, id, i, j, c) :
                    i \in 1..Len(sizes), j \in 1..2, c \in 1..(degree + 1)}
        used == {r \in refs : r[4] <= sizes[r[3]]}
    IN [gct |-> [BaseTwoDecomposition |-> b2d,
                 Value |-> [i \in 1..Len(sizes) |->
                             [j \in 1..sizes[i] |->
                               [c \in 1..(degree + 1) |-> Ref(owner, id, i, j, c)]]]],
        cells |-> [r \in used |-> [lq |-> levelQ, lp |-> levelP, v |-> 0]]]

Degree(gct) == Len(gct.Value[1][1]) - 1

LevelQ(gct, m) == m[gct.Value[1][1][1]].lq

LevelP(gct, m) == m[gct.Value[1][1][1]].lp

BaseRNSDecompositionVectorSize(gct) == Len(gct.Value)

BaseTwoDecompositionVectorSize(gct) == [i \in 1..Len(gct.Value) |-> Len(gct.Value[i])]

\* The cells (i, j) of a table.
Cells(gct) == {<<i, j>> \in (1..Len(gct.Value)) \X (1..2) : j <= Len(gct.Value[i])}

\* Column-major position of cell (i, j): the reads ordered by j, then i.
ColumnMajor(gct, i, j) ==
    Cardinality({c \in Cells(gct) : c[2] < j \/ (c[2] = j /\ c[1] < i)})

\* Row-major position of cell (i, j), counted from 0.
RECURSIVE RowMajor(_, _, _)
RowMajor(gct, i, j) ==
    IF i = 1 THEN j - 1 ELSE Len(gct.Value[i - 1]) + RowMajor(gct, i - 1, j)

\* --------------------------------------------------------------- sampling
\* The n-th element read from a uniform sampler over a PRNG keyed by seed.
Uniform(seed, n, levelQ, levelP) ==
    (seed * 2 + n * 3 + levelQ + (levelP + 1)) % CoeffMod

\* The first component -a*sk + w*P*s' + e written by key generation.
MaskedSecret(seed, n, levelQ, levelP) ==
    (2 * Uniform(seed, n, levelQ, levelP) + 1) % CoeffMod

\* -------------------------------------------------------- EvaluationKey
\* The evkParams arguments given to the constructors: none, or one
\* EvaluationKeyParameters whose pointer fields are nil (<<>>) or set.
EvkParamChoices ==
    {<<>>} \cup
    {<<[LevelQ |-> p[1], LevelP |-> p[2], BaseTwoDecomposition |-> p[3], Compressed |-> c]>> :
        p \in {<< <<0>>, <<>>, <<>> >>,
               << <<>>, <<-1>>, <<2>> >>},
        c \in BOOLEAN}

ResolveEvaluationKeyParameters(evkParams) ==
    IF Len(evkParams) # 0
    THEN [levelQ |-> IF evkParams[1].LevelQ = <<>> THEN ParamsMaxLevelQ
                     ELSE evkParams[1].LevelQ[1],
          levelP |-> IF evkParams[1].LevelP = <<>> THEN ParamsMaxLevelP
                     ELSE evkParams[1].LevelP[1],
          BaseTwoDecomposition |->
                     IF evkParams[1].BaseTwoDecomposition # <<>>
                     THEN evkParams[1].BaseTwoDecomposition[1] ELSE 0,
          compressed |-> evkParams[1].Compressed]
    ELSE [levelQ |-> ParamsMaxLevelQ, levelP |-> ParamsMaxLevelP,
          BaseTwoDecomposition |-> 0, compressed |-> FALSE]

\* The Seed field of a key built by newEvaluationKey, newRelinearizationKey
\* and newGaloisKey: the composite literal leaves it nil.
newKeySeed(compressed) == <<>>

newKeyDegree(compressed) == IF compressed THEN 0 ELSE 1

IsCompressed(evk) == Degree(evk.gct) = 0

InitEvk ==
    /\ evks = <<>>
    /\ bufs = <<>>
    /\ mem = <<>>
    /\ res = [op |-> "init", key |-> 0, buf |-> <<>>, err |-> "nil"]

\* NewEvaluationKey / NewRelinearizationKey / NewGaloisKey.
NewKey(type, evkParams) ==
    /\ Len(evks) < MaxKeys
    /\ LET r == ResolveEvaluationKeyParameters(evkParams)
           id == Len(evks) + 1
           g == NewGadgetCiphertext("evk", id, newKeyDegree(r.compressed),
                                    r.levelQ, r.levelP, r.BaseTwoDecomposition)
       IN /\ evks' = Append(evks, [type |-> type,
                                   NthRoot |-> IF type = "GaloisKey" THEN "NthRoot" ELSE "",
                                   gct |-> g.gct,
                                   Seed |-> newKeySeed(r.compressed),
                                   requested |-> IF r.compressed THEN "compressed"
                                                 ELSE "uncompressed",
                                   hist |-> "new",
                                   seeded |-> FALSE])
          /\ mem' = g.cells @@ mem
          /\ res' = [op |-> "New", key |-> id, buf |-> <<>>, err |-> "nil"]
    /\ UNCHANGED <<bufs, notEvkVars>>

NewEvaluationKey == \E p \in EvkParamChoices : NewKey("EvaluationKey", p)

NewRelinearizationKey == \E p \in EvkParamChoices : NewKey("RelinearizationKey", p)

NewGaloisKey == \E p \in EvkParamChoices : NewKey("GaloisKey", p)

\* Key generation of a compressed key: the generator draws a seed, stores it
\* in the key and writes the first component of every cell.
GenCompressedKey(k, s) ==
    /\ IsCompressed(evks[k])
    /\ evks[k].hist = "new"
    /\ LET g == evks[k].gct
           lq == LevelQ(g, mem)
           lp == LevelP(g, mem)
       IN mem' = [r \in DOMAIN mem |->
                    IF \E c \in Cells(g) : r = g.Value[c[1]][c[2]][1]
                    THEN [mem[r] EXCEPT !.v =
                            MaskedSecret(s, RowMajor(g, r[3], r[4]), lq, lp)]
                    ELSE mem[r]]
    /\ evks' = [evks EXCEPT ![k].Seed = <<s>>, ![k].hist = "seeded", ![k].seeded = TRUE]
    /\ res' = [op |-> "Gen", key |-> k, buf |-> <<>>, err |-> "nil"]
    /\ UNCHANGED <<bufs, notEvkVars>>

\* A caller allocates a GadgetCiphertext to be used as an expansion buffer.
BufParamChoices ==
    {<<0, 1, 0>>, <<1, 1, 0>>, <<0, -1, 0>>, <<0, -1, 2>>, <<1, -1, 2>>}

NewBuffer(degree, p) ==
    /\ Len(bufs) < MaxBufs
    /\ LET id == Len(bufs) + 1
           g == NewGadgetCiphertext("buf", id, degree, p[1], p[2], p[3])
       IN /\ bufs' = Append(bufs, g.gct)
          /\ mem' = g.cells @@ mem
          /\ res' = [op |-> "NewBuffer", key |-> 0, buf |-> <<id>>, err |-> "nil"]
    /\ UNCHANGED <<evks, notEvkVars>>

\* Expand testing the seed before the compression.
ExpandCheckSeedFirst(evk, buffer, m) ==
    IF evk.Seed = <<>> THEN "seed is missing"
    ELSE IF ~IsCompressed(evk) THEN "evaluation key is not compressed"
    ELSE "nil"

\* Expand without the test of the buffer's levelP.
ExpandCheckNoLevelP(evk, buffer, m) ==
    IF ~IsCompressed(evk) THEN "evaluation key is not compressed"
    ELSE IF evk.Seed = <<>> THEN "seed is missing"
    ELSE IF buffer = <<>> THEN "nil"
    ELSE LET b == bufs[buffer[1]]
         IN IF Degree(b) # 0 THEN "invalid buffer, degree"
            ELSE IF BaseRNSDecompositionVectorSize(b) # BaseRNSDecompositionVectorSize(evk.gct)
                 THEN "invalid buffer BaseRNSDecompositionVectorSize"
            ELSE IF BaseTwoDecompositionVectorSize(b) # BaseTwoDecompositionVectorSize(evk.gct)
                 THEN "invalid buffer BaseTwoDecompositionVectorSize"
            ELSE IF LevelQ(b, m) # LevelQ(evk.gct, m) THEN "invalid buffer levelQ"
            ELSE "nil"

\* The checks of Expand, in the order of the code; "nil" when all pass.
\* buffer is <<>> (nil) or <<b>>.
ExpandCheck(evk, buffer, m) ==
    IF ~IsCompressed(evk) THEN "evaluation key is not compressed"
    ELSE IF evk.Seed = <<>> THEN "seed is missing"
    ELSE IF buffer = <<>> THEN "nil"
    ELSE LET b == bufs[buffer[1]]
         IN IF Degree(b) # 0 THEN "invalid buffer, degree"
            ELSE IF BaseRNSDecompositionVectorSize(b) # BaseRNSDecompositionVectorSize(evk.gct)
                 THEN "invalid buffer BaseRNSDecompositionVectorSize"
            ELSE IF BaseTwoDecompositionVectorSize(b) # BaseTwoDecompositionVectorSize(evk.gct)
                 THEN "invalid buffer BaseTwoDecompositionVectorSize"
            ELSE IF LevelQ(b, m) # LevelQ(evk.gct, m) THEN "invalid buffer levelQ"
            ELSE IF LevelP(b, m) # LevelP(evk.gct, m) THEN "invalid buffer levelP"
            ELSE "nil"

\* The PRNG of an expansion: keyed by the seed of the key, a new stream.
ExpandSeed(evk) == evk.Seed[1]

\* The ring element that becomes the second component of cell (i, j):
\* the buffer's element itself (the struct value is copied, its coefficient
\* slices are shared).
ExpandSecond(k, buffer, i, j) ==
    IF buffer = <<>> THEN Ref("exp", k, i, j, 1) ELSE bufs[buffer[1]].Value[i][j][1]

Expand(k, buffer) ==
    LET evk == evks[k]
        g == evk.gct
        e == ExpandCheck(evk, buffer, mem)
    IN /\ res' = [op |-> "Expand", key |-> k, buf |-> buffer, err |-> e]
       /\ UNCHANGED <<bufs, notEvkVars>>
       /\ IF e # "nil"
          THEN UNCHANGED <<evks, mem>>
          ELSE LET lq == LevelQ(g, mem)
                   lp == LevelP(g, mem)
                   tgt == {ExpandSecond(k, buffer, c[1], c[2]) : c \in Cells(g)}
                   cellOf(r) == CHOOSE c \in Cells(g) : ExpandSecond(k, buffer, c[1], c[2]) = r
               IN /\ mem' = [r \in DOMAIN mem \cup tgt |->
                               IF r \in tgt
                               THEN [lq |-> lq, lp |-> lp,
                                     v |-> Uniform(ExpandSeed(evk),
                                                   RowMajor(g, cellOf(r)[1], cellOf(r)[2]),
                                                   lq, lp)]
                               ELSE mem[r]]
                  /\ evks' = [evks EXCEPT
                                ![k].gct.Value =
                                    [i \in 1..Len(g.Value) |->
                                      [j \in 1..Len(g.Value[i]) |->
                                        <<g.Value[i][j][1], ExpandSecond(k, buffer, i, j)>>]],
                                ![k].hist = "expanded"]

\* The Seed field of the copy made by EvaluationKey.CopyNew.
CopyNewSeed(evk) == <<>>

CopyNew(k) ==
    /\ Len(evks) < MaxKeys
    /\ LET evk == evks[k]
           id == Len(evks) + 1
           g == evk.gct
           val == [i \in 1..Len(g.Value) |->
                    [j \in 1..Len(g.Value[i]) |->
                      [c \in 1..Len(g.Value[i][j]) |-> Ref("evk", id, i, j, c)]]]
           new == {Ref("evk", id, c[1], c[2], d) : c \in Cells(g), d \in 1..(Degree(g) + 1)}
       IN /\ evks' = Append(evks, [evk EXCEPT !.gct.Value = val,
                                              !.Seed = CopyNewSeed(evk),
                                              !.requested = "copy",
                                              !.hist = "copy"])
          /\ mem' = [r \in new |-> mem[g.Value[r[3]][r[4]][r[5]]]] @@ mem
          /\ res' = [op |-> "CopyNew", key |-> id, buf |-> <<>>, err |-> "nil"]
    /\ UNCHANGED <<bufs, notEvkVars>>

Keys == 1..Len(evks)

BufferArgs == {<<>>} \cup {<<b>> : b \in 1..Len(bufs)}

\* ------------------------------------------------------------ key sets
Threads == 1..NThreads

GalEls == 1..NGalEls

\* A relinearization key argument: nil or one of the keys.
RlkArgs == {<<>>} \cup {<<r>> : r \in 1..NRlks}

NoRet == [gk |-> <<>>, rk |-> <<>>, galEls |-> {}, n |-> 0, err |-> ""]

NoCall == [pc |-> "idle", op |-> "", h |-> 0, galEl |-> 0,
           evk |-> [RelinearizationKey |-> <<>>, GaloisKeys |-> <<>>],
           ret |-> NoRet]

InitEks ==
    /\ gks = <<>>
    /\ sets = <<>>
    /\ maps = <<>>
    /\ handles = <<>>
    /\ phase = "populate"
    /\ threads = [t \in Threads |-> NoCall]

\* ------------------------------------ collective key generation: state
Parties == 1..NParties
QMod == CoeffMod

\* The ring elements: the secret key of each party, the common random
\* polynomial, the shares, the two components of the public key.
SkRef(i) == <<"sk", i>>
CrpRef == <<"crp", 0>>
ShareRef(i) == <<"share", i>>
PkRef(i) == <<"pk", i>>
Shares == {ShareRef(i) : i \in 1..MaxShares}
RingRefs == {SkRef(i) : i \in Parties} \cup {CrpRef} \cup Shares \cup {PkRef(0), PkRef(1)}

\* The residue of an integer (TLC's % wants a non-negative dividend).
Mod(x, m) == ((x % m) + m) % m

\* A ring element is its residue in the chain Q and its residue in the
\* chain P, both in the NTT and Montgomery representation the keys are
\* held in.
ZeroPoly == [Q |-> 0, P |-> 0]
SmallPoly(x) == [Q |-> Mod(x, QMod), P |-> Mod(x, PMod)]

\* The secret key of each party: the integer whose residues are the value
\* of the key in the NTT representation.
Secret(i) == 6 * i - 5

NoMeta == [terms |-> 0, es |-> 0, ss |-> 0]

\* Before NewCKGProtocol: the parties hold their secret keys, the shares
\* and the public key are allocated (zero), no CRP is sampled.
InitCkg ==
    /\ params = [hasP |-> FALSE, made |-> FALSE]
    /\ ckgs = <<>>
    /\ samplers = <<>>
    /\ ring = [r \in RingRefs |->
                 IF r[1] = "sk" THEN SmallPoly(Secret(r[2])) ELSE ZeroPoly]
    /\ meta = [crp |-> FALSE, inplace |-> FALSE, share |-> [o \in Shares |-> NoMeta]]
    /\ pk = [Value |-> <<PkRef(0), PkRef(1)>>, made |-> FALSE, of |-> ShareRef(1),
             share |-> ZeroPoly, crp |-> ZeroPoly]

\* ------------------------------------------- collective permute: state

\* The parameters of the permute protocol's instance of the scheme: ring
\* degree 2^PermLogN, plaintext modulus, one modulus in the chain Q, one in
\* the chain P; all three are primes congruent to 1 modulo 2N.
PermLogN == 2
PermN == 2 ^ PermLogN
PermT == 17
PermQ == 937
PermP == 41

\* bfv.GaloisGen, the generator the index table steps through.
GaloisGen == 5

\* A primitive 2N-th root of unity of each modulus, the inverse of N and
\* the inverse of P modulo Q.
Psi(m) == IF m = PermT THEN 2 ELSE IF m = PermP THEN 3 ELSE 14
NInv(m) == IF m = PermT THEN 13 ELSE IF m = PermP THEN 31 ELSE 703
PInvQ == 160

Coeffs == 1..PermN
ZeroRow == [j \in Coeffs |-> 0]
Row(s) == [j \in Coeffs |-> s[j]]
RowMod(s, m) == [j \in Coeffs |-> Mod(s[j], m)]

\* ring.Context.NewPoly: one row of N zero coefficients per modulus.
NewPoly(rows) == [i \in 1..rows |-> ZeroRow]

RECURSIVE Pow(_, _, _)
Pow(x, n, m) ==
    IF n = 0 THEN 1 % m
    ELSE IF n % 2 = 0 THEN Pow((x * x) % m, n \div 2, m)
    ELSE (x * Pow((x * x) % m, n \div 2, m)) % m

\* utils.BitReverse64: the lowest bitLen bits of index, reversed.
RECURSIVE BitReverse64(_, _)
BitReverse64(index, bitLen) ==
    IF bitLen = 0 THEN 0
    ELSE (index % 2) * 2 ^ (bitLen - 1) + BitReverse64(index \div 2, bitLen - 1)

RECURSIVE SumTo(_, _)
SumTo(f, n) == IF n = 0 THEN 0 ELSE f[n] + SumTo(f, n - 1)

\* The powers of psi the transform of each modulus multiplies by: row k
\* of the table holds the powers of the k-th odd power of psi, taken in
\* bit-reversed order; and the same for the inverse of psi.
Moduli == {PermT, PermQ, PermP}
Twiddle ==
    [m \in Moduli |-> [k \in Coeffs |-> [j \in Coeffs |->
        Pow(Psi(m), (2 * BitReverse64(k - 1, PermLogN) + 1) * (j - 1), m)]]]
InvTwiddle ==
    [m \in Moduli |-> [k \in Coeffs |-> [j \in Coeffs |->
        Pow(Psi(m), (2 * PermN - 1) * (2 * BitReverse64(k - 1, PermLogN) + 1) * (j - 1), m)]]]

\* The negacyclic number-theoretic transform of one row: the values of the
\* polynomial at the odd powers of psi, in bit-reversed order; and its
\* inverse.
NTTRow(row, m) ==
    [k \in Coeffs |->
        SumTo([j \in Coeffs |-> (row[j] * Twiddle[m][k][j]) % m], PermN) % m]
InvNTTRow(row, m) ==
    [j \in Coeffs |->
        (NInv(m) * (SumTo([k \in Coeffs |-> (row[k] * InvTwiddle[m][k][j]) % m], PermN) % m)) % m]

\* The moduli of a context, by row: contextQ and contextT have one row,
\* contextQP has the row of Q followed by the row of P.
ContextQ == <<PermQ>>
ContextT == <<PermT>>
ContextQP == <<PermQ, PermP>>
ContextP == <<PermP>>

\* The operations of a ring.Context act on the rows of the context's
\* moduli and leave the other rows of the output as they are.
OnRows(ctx, out, f(_)) ==
    [i \in DOMAIN out |-> IF i <= Len(ctx) THEN f(i) ELSE out[i]]
NTT(ctx, p, out) == OnRows(ctx, out, LAMBDA i : NTTRow(p[i], ctx[i]))
InvNTT(ctx, p, out) == OnRows(ctx, out, LAMBDA i : InvNTTRow(p[i], ctx[i]))
RingAdd(ctx, p1, p2, out) ==
    OnRows(ctx, out, LAMBDA i : [j \in Coeffs |-> (p1[i][j] + p2[i][j]) % ctx[i]])
RingSub(ctx, p1, p2, out) ==
    OnRows(ctx, out, LAMBDA i : [j \in Coeffs |-> Mod(p1[i][j] - p2[i][j], ctx[i])])
RingNeg(ctx, p, out) ==
    OnRows(ctx, out, LAMBDA i : [j \in Coeffs |-> Mod(0 - p[i][j], ctx[i])])
MulCoeffsMontgomery(ctx, p1, p2, out) ==
    OnRows(ctx, out, LAMBDA i : [j \in Coeffs |-> (p1[i][j] * p2[i][j]) % ctx[i]])
MulScalarBigint(ctx, p, scalar, out) ==
    OnRows(ctx, out, LAMBDA i : [j \in Coeffs |-> (p[i][j] * (scalar % ctx[i])) % ctx[i]])

\* A polynomial with small signed coefficients, in the rows of a context.
SmallRows(ctx, s) == [i \in 1..Len(ctx) |-> RowMod(s, ctx[i])]

\* GaussianSampler.ReadLvl writes the sampled error e into every row;
\* ReadAndAdd adds it to every row.
ReadLvl(ctx, e, out) == OnRows(ctx, out, LAMBDA i : RowMod(e, ctx[i]))
ReadAndAdd(ctx, e, out) ==
    OnRows(ctx, out, LAMBDA i : [j \in Coeffs |-> Mod(out[i][j] + e[j], ctx[i])])

\* FastBasisExtender.ModDownSplitedPQ: (p1Q - p1P) / P in the chain Q, the
\* rows of P read from p1P; ModDownPQ reads them from the rows of p1 that
\* follow the rows of Q.
ModDownSplitedPQ(p1Q, p1P, out) ==
    OnRows(ContextQ, out,
           LAMBDA i : [j \in Coeffs |-> (Mod(p1Q[i][j] - p1P[1][j], PermQ) * PInvQ) % PermQ])
ModDownPQ(p1, out) == ModDownSplitedPQ(p1, <<p1[Len(ContextQ) + 1]>>, out)

\* lift: the first row of p0 scaled by floor(Q/T), into the rows of Q.
lift(p0, out) ==
    OnRows(ContextQ, out,
           LAMBDA i : [j \in Coeffs |-> (p0[1][j] * (PermQ \div PermT)) % PermQ])

\* SimpleScaler.Scale: round(T * x / Q) modulo T, on the first row.
Scale(p, out) ==
    [out EXCEPT ![1] = [j \in Coeffs |-> ((2 * PermT * p[1][j] + PermQ) \div (2 * PermQ)) % PermT]]

\* The index table of NewPermuteProtocol for ring degree n (a power of
\* two below 2^30, so that no product leaves the 64-bit word): the loop
\* over the powers pos of GaloisGen modulo m = 2n.
RECURSIVE IndexLoopOffByOne(_, _, _, _)
IndexLoopOffByOne(indexMatrix, i, pos, n) ==
    LET logN == CHOOSE k \in 0..30 : 2 ^ k = n
        rowSize == n \div 2
        m == n * 2
        index1 == (pos - 1) \div 2
        index2 == (m - pos + 1) \div 2
    IN IF i >= rowSize THEN indexMatrix
       ELSE IndexLoopOffByOne([indexMatrix EXCEPT ![i + 1] = BitReverse64(index1, logN),
                                                  ![i + rowSize + 1] = BitReverse64(index2, logN)],
                              i + 1, (pos * GaloisGen) % m, n)

RECURSIVE IndexLoop(_, _, _, _)
IndexLoop(indexMatrix, i, pos, n) ==
    LET logN == CHOOSE k \in 0..30 : 2 ^ k = n
        rowSize == n \div 2
        m == n * 2
        index1 == (pos - 1) \div 2
        index2 == (m - pos - 1) \div 2
    IN IF i >= rowSize THEN indexMatrix
       ELSE IndexLoop([indexMatrix EXCEPT ![i + 1] = BitReverse64(index1, logN),
                                          ![i + rowSize + 1] = BitReverse64(index2, logN)],
                      i + 1, (pos * GaloisGen) % m, n)
IndexMatrix(n) == IndexLoop([i \in 1..n |-> 0], 0, 1, n)

\* The ring elements of the permute protocol: the scratch polynomials of
\* each protocol instance, the secret key of each party, the ciphertext,
\* the common reference polynomial, the share of each party (0: the
\* aggregated share), the output ciphertext, the mask drawn by GenShares
\* and the plaintexts of a caller that runs the three steps one by one.
Pps == 1..MaxPps
Tmp1Ref(p) == <<"tmp1", p>>
Tmp2Ref(p) == <<"tmp2", p>>
HPRef(p) == <<"hP", p>>
PermSkRef(i) == <<"sk", i>>
CtRef(c) == <<"ct", c>>
CrsRef == <<"crs", 0>>
H0Ref(i) == <<"h0", i>>
H1Ref(i) == <<"h1", i>>
OutRef(c) == <<"out", c>>
SeqOutRef(c) == <<"seqOut", c>>
CoeffsRef == <<"coeffs", 0>>
PtRef(c) == <<"pt", c>>
RefreshShare(i) == [RefreshShareDecrypt |-> H0Ref(i), RefreshShareRecrypt |-> H1Ref(i)]
PermRefs ==
    {Tmp1Ref(p) : p \in Pps} \cup {Tmp2Ref(p) : p \in Pps} \cup {HPRef(p) : p \in Pps}
    \cup {PermSkRef(i) : i \in Parties} \cup {CtRef(0), CtRef(1), CrsRef}
    \cup {H0Ref(i) : i \in 0..NParties} \cup {H1Ref(i) : i \in 0..NParties}
    \cup {OutRef(0), OutRef(1), SeqOutRef(0), SeqOutRef(1), CoeffsRef, PtRef(0), PtRef(1)}

\* The number of rows a ring element is allocated with.
RowsOf(r) ==
    IF r[1] \in {"tmp1", "tmp2", "sk", "crs"} THEN Len(ContextQP) ELSE 1

\* The secret key of each party (ternary coefficients), held in the NTT
\* representation over QP.
PermSecret(i) == IF i % 2 = 1 THEN <<1, 0, -1, 1>> ELSE <<0, 1, 1, -1>>
SecretKey(i) == NTT(ContextQP, SmallRows(ContextQP, PermSecret(i)), NewPoly(Len(ContextQP)))

\* Before NewPermuteProtocol: the parties hold their secret keys, every
\* other ring element is allocated (zero).
InitPerm ==
    /\ pps = <<>>
    /\ pring = [r \in PermRefs |->
                  IF r[1] = "sk" THEN SecretKey(r[2]) ELSE NewPoly(RowsOf(r))]
    /\ pmeta = [ct |-> FALSE, v |-> ZeroRow, crs |-> FALSE,
                share |-> [i \in Parties |-> [made |-> FALSE, permutation |-> <<>>]],
                agg |-> [made |-> FALSE, permutations |-> {}],
                fin |-> [made |-> FALSE, permutation |-> <<>>, permutations |-> {}],
                seq |-> [step |-> 0, permutation |-> <<>>],
                last |-> [k |-> 0, hP |-> ZeroRow, eP |-> ZeroRow]]
    /\ tabs = [made |-> <<>>, copied |-> FALSE, of |-> 0, polIn |-> <<>>, polOut |-> <<>>]

\* ------------------------------------- bootstrapper, Poly, PolyMatrix

\* After NewSimpleBootstrapper: nothing bootstrapped, no call made; arg is
\* the list handed to the last call, cts and err what it returned.
InitBtp ==
    btp = [Counter |-> 0, op |-> "init", arg |-> <<>>, cts |-> <<>>, err |-> "nil"]

\* ring.Poly: Coeffs is a slice of rows; a row is a slice of the heap of
\* coefficient arrays. The heap holds the rows of the source, of the
\* target, and the rows Resize allocates.
PolyN == 2
RowRefs == {<<o, i>> : o \in {"src", "dst", "new"}, i \in 0..MaxPolyLevel}
NoRow == <<>>
InitPoly ==
    /\ prows = [r \in RowRefs |-> NoRow]
    /\ pols = [pol |-> <<>>, p1 |-> <<>>, made |-> FALSE]
    /\ cp = [op |-> "init", level |-> 0, before |-> <<>>]

\* ringqp.PolyMatrix: the rows of the matrix, each a PolyVector, each
\* polynomial of it known by its degree and its levels; and the last call
\* with its arguments and its result.
InitMat ==
    /\ mat = <<>>
    /\ mop = [op |-> "init", N |-> 0, levelQ |-> 0, levelP |-> 0, rows |-> 0, cols |-> 0, ret |-> 0]

\* No byte written yet, no call made yet.
InitIo ==
    /\ wire = [bytes |-> <<>>, of |-> "none", Seed |-> <<>>, rlk |-> FALSE, gal |-> FALSE]
    /\ io = [op |-> "init", key |-> 0, n |-> 0, moved |-> 0, size |-> 0, err |-> "nil"]

Init == InitEvk /\ InitEks /\ InitIo /\ InitCkg /\ InitPerm
        /\ InitBtp /\ InitPoly /\ InitMat

\* ------------------------------------------------ key sets: operations

\* The fields of a MemEvaluationKeySet struct (what a value receiver copies).
Fields(set) == [RelinearizationKey |-> set.RelinearizationKey, GaloisKeys |-> set.GaloisKeys]

\* The content of the map a GaloisKeys field refers to (a nil map reads as
\* an empty one).
MapOf(evk, mps) == IF evk.GaloisKeys = <<>> THEN <<>> ELSE mps[evk.GaloisKeys[1]]

\* The loop of NewMemEvaluationKeySet keying the map by the position of the
\* key instead of its Galois element.
RECURSIVE InsertAllByIndex(_, _, _)
InsertAllByIndex(m, galoisKeys, pool) ==
    IF galoisKeys = <<>> THEN m
    ELSE InsertAllByIndex((Head(galoisKeys) :> Head(galoisKeys)) @@ m,
                          Tail(galoisKeys), pool)

\* The loop of NewMemEvaluationKeySet: eks.GaloisKeys[k.GaloisElement] = k
\* for every key of the list, in order.
RECURSIVE InsertAll(_, _, _)
InsertAll(m, galoisKeys, pool) ==
    IF galoisKeys = <<>> THEN m
    ELSE InsertAll((pool[Head(galoisKeys)].GaloisElement :> Head(galoisKeys)) @@ m,
                   Tail(galoisKeys), pool)

\* GetGaloisKey on the receiver copy evk.
GetGaloisKey(evk, galEl, mps) ==
    IF galEl \in DOMAIN MapOf(evk, mps)
    THEN [NoRet EXCEPT !.gk = <<MapOf(evk, mps)[galEl]>>, !.err = "nil"]
    ELSE [NoRet EXCEPT !.err = "GaloisKey is nil"]

\* A read that inserts an empty entry when the element is missing.
GaloisKeysInsertOnMiss(m, galEl) ==
    IF galEl \in DOMAIN m THEN m ELSE (galEl :> 0) @@ m

\* The map after the read evk.GaloisKeys[galEl] of GetGaloisKey: a comma-ok
\* read inserts nothing.
GaloisKeysAfterGet(m, galEl) == m

\* GetGaloisKeysList: the elements in an unspecified order, given here as
\* their number and their set.
GetGaloisKeysList(evk, mps) ==
    IF evk.GaloisKeys = <<>>
    THEN [NoRet EXCEPT !.err = "nil"]
    ELSE [NoRet EXCEPT !.galEls = DOMAIN MapOf(evk, mps),
                       !.n = Cardinality(DOMAIN MapOf(evk, mps)),
                       !.err = "nil"]

\* GetRelinearizationKey with the nil test inverted.
GetRelinearizationKeyInverted(evk) ==
    IF evk.RelinearizationKey = <<>>
    THEN [NoRet EXCEPT !.rk = evk.RelinearizationKey, !.err = "nil"]
    ELSE [NoRet EXCEPT !.err = "RelinearizationKey is nil"]

GetRelinearizationKey(evk) ==
    IF evk.RelinearizationKey # <<>>
    THEN [NoRet EXCEPT !.rk = evk.RelinearizationKey, !.err = "nil"]
    ELSE [NoRet EXCEPT !.err = "RelinearizationKey is nil"]

\* ShallowCopy returning a pointer to a copy of the struct.
ShallowCopyStruct(heap, ptr) == [heap |-> Append(heap, heap[ptr]), ptr |-> Len(heap) + 1]

\* ShallowCopy: the heap of structs after the call and the pointer returned
\* (the receiver itself, nothing is allocated).
ShallowCopy(heap, ptr) == [heap |-> heap, ptr |-> ptr]

\* The result of a lookup made through handle h, run alone in this state.
Lookup(op, ptr, galEl, heap, mps) ==
    CASE op = "GetGaloisKey" -> GetGaloisKey(Fields(heap[ptr]), galEl, mps)
      [] op = "GetGaloisKeysList" -> GetGaloisKeysList(Fields(heap[ptr]), mps)
      [] op = "GetRelinearizationKey" -> GetRelinearizationKey(Fields(heap[ptr]))

Handles == 1..Len(handles)

\* Sequences of distinct GaloisKey pointers.
GaloisKeyLists ==
    LET P == 1..Len(gks)
    IN {<<>>} \cup {<<a>> : a \in P} \cup {l \in P \X P : l[1] # l[2]}

\* Key generation hands out a GaloisKey tagged with its Galois element.
GenGaloisKey(galEl) ==
    /\ phase = "populate"
    /\ Len(gks) < MaxGks
    /\ gks' = Append(gks, [GaloisElement |-> galEl])
    /\ UNCHANGED <<sets, maps, handles, phase, threads, notEksVars>>

NewMemEvaluationKeySet(relinKey, galoisKeys) ==
    /\ phase = "populate"
    /\ Len(sets) < MaxSets
    /\ Len(handles) < MaxHandles
    /\ maps' = Append(maps, InsertAll(<<>>, galoisKeys, gks))
    /\ sets' = Append(sets, [RelinearizationKey |-> relinKey,
                             GaloisKeys |-> <<Len(maps) + 1>>,
                             built |-> galoisKeys,
                             pristine |-> TRUE])
    /\ handles' = Append(handles, [ptr |-> Len(sets) + 1, copyOf |-> <<>>,
                                   then |-> <<>>])
    /\ UNCHANGED <<gks, phase, threads, notEksVars>>

\* A caller stores a relinearization key in the set (the field is public).
SetRelinearizationKey(h, relinKey) ==
    /\ phase = "populate"
    /\ sets' = [sets EXCEPT ![handles[h].ptr].RelinearizationKey = relinKey,
                            ![handles[h].ptr].pristine = FALSE]
    /\ UNCHANGED <<gks, maps, handles, phase, threads, notEksVars>>

\* A caller adds a Galois key to the map of the set (the field is public).
AddGaloisKey(h, k) ==
    /\ phase = "populate"
    /\ sets[handles[h].ptr].GaloisKeys # <<>>
    /\ LET m == sets[handles[h].ptr].GaloisKeys[1]
       IN maps' = [maps EXCEPT ![m] = InsertAll(maps[m], <<k>>, gks)]
    /\ sets' = [sets EXCEPT ![handles[h].ptr].pristine = FALSE]
    /\ UNCHANGED <<gks, handles, phase, threads, notEksVars>>

ShallowCopyCall(h) ==
    /\ Len(handles) < MaxHandles
    /\ LET r == ShallowCopy(sets, handles[h].ptr)
       IN /\ sets' = r.heap
          /\ handles' = Append(handles,
                 [ptr |-> r.ptr, copyOf |-> <<h>>,
                  then |-> <<[rlk |-> sets[handles[h].ptr].RelinearizationKey,
                              gal |-> MapOf(Fields(sets[handles[h].ptr]), maps)]>>])
    /\ UNCHANGED <<gks, maps, phase, threads, notEksVars>>

\* The key set is populated: the evaluator threads start.
StartServing ==
    /\ phase = "populate"
    /\ handles # <<>>
    /\ phase' = "serve"
    /\ UNCHANGED <<gks, sets, maps, handles, threads, notEksVars>>

LookupOps == {"GetGaloisKey", "GetGaloisKeysList", "GetRelinearizationKey"}

\* Thread t calls a lookup through handle h: the value receiver copies the
\* struct the handle points to.
Call(t, op, h, galEl) ==
    /\ phase = "serve"
    /\ threads[t].pc = "idle"
    /\ op = "GetGaloisKey" \/ galEl = 0
    /\ threads' = [threads EXCEPT ![t] =
                     [NoCall EXCEPT !.pc = "called", !.op = op, !.h = h,
                                    !.galEl = galEl,
                                    !.evk = Fields(sets[handles[h].ptr])]]
    /\ UNCHANGED <<gks, sets, maps, handles, phase, notEksVars>>

\* Thread t runs the body of the lookup and returns.
Return(t) ==
    /\ threads[t].pc = "called"
    /\ LET c == threads[t]
       IN /\ threads' = [threads EXCEPT ![t].pc = "done",
                ![t].ret = CASE c.op = "GetGaloisKey" -> GetGaloisKey(c.evk, c.galEl, maps)
                             [] c.op = "GetGaloisKeysList" -> GetGaloisKeysList(c.evk, maps)
                             [] c.op = "GetRelinearizationKey" -> GetRelinearizationKey(c.evk)]
          /\ maps' = IF c.op = "GetGaloisKey" /\ c.evk.GaloisKeys # <<>>
                     THEN [maps EXCEPT ![c.evk.GaloisKeys[1]] =
                              GaloisKeysAfterGet(maps[c.evk.GaloisKeys[1]], c.galEl)]
                     ELSE maps
    /\ UNCHANGED <<gks, sets, handles, phase, notEksVars>>

\* Thread t has used the result and is ready for its next lookup.
Forget(t) ==
    /\ threads[t].pc = "done"
    /\ threads' = [threads EXCEPT ![t] = NoCall]
    /\ UNCHANGED <<gks, sets, maps, handles, phase, notEksVars>>

\* ------------------------------------------------- binary serialization
\* A byte stream is a sequence of fields; a field is a record of integers:
\* its kind t, and its contents a, b, c.  The stream's length in bytes is
\* the sum of the sizes of its fields.
SeedLen == 32

Tok(t, a, b, c) == [t |-> t, a |-> a, b |-> b, c |-> c]
U8(x) == Tok("u8", x, 0, 0)
U64(x) == Tok("u64", x, 0, 0)

\* Bytes of one field.  A ring element is a length prefix, then per chain
\* a length prefix and one 8-byte word per modulus.  The keys of a key set
\* are opaque: a key is one field, a GaloisKey is 16 bytes longer than the
\* EvaluationKey in it.
TokSize(tok) ==
    CASE tok.t = "u8" -> 1
      [] tok.t = "u64" -> 8
      [] tok.t = "seed" -> SeedLen
      [] tok.t = "poly" -> 8 + (8 + 8 * (tok.a + 1)) + (8 + 8 * (tok.b + 1))
      [] tok.t = "rlk" -> 64
      [] tok.t = "gk" -> 64 + 16

RECURSIVE SizeOf(_)
SizeOf(b) == IF b = <<>> THEN 0 ELSE TokSize(Head(b)) + SizeOf(Tail(b))

RECURSIVE Flatten(_)
Flatten(ss) == IF ss = <<>> THEN <<>> ELSE Head(ss) \o Flatten(Tail(ss))

EncodePoly(r, m) == Tok("poly", m[r].lq, m[r].lp, m[r].v)

\* A sequence is its length, then its elements in order.
EncodeVec(vec, m) ==
    <<U64(Len(vec))>> \o [d \in 1..Len(vec) |-> EncodePoly(vec[d], m)]

EncodeRow(row, m) ==
    <<U64(Len(row))>> \o Flatten([j \in 1..Len(row) |-> EncodeVec(row[j], m)])

EncodeGadgetCiphertext(g, m) ==
    <<U64(g.BaseTwoDecomposition), U64(Len(g.Value))>>
      \o Flatten([i \in 1..Len(g.Value) |-> EncodeRow(g.Value[i], m)])

GadgetCiphertextBinarySize(g, m) == SizeOf(EncodeGadgetCiphertext(g, m))

\* A writer that accepts `room` more bytes: a write of size bytes moves
\* Min(size, room) bytes and fails when they are fewer than size.
WriteInc(size, room) == Min(size, room)
WriteFails(size, room) == size > room

\* EvaluationKey.BinarySize.
BinarySize(evk, m) ==
    IF evk.Seed # <<>>
    THEN GadgetCiphertextBinarySize(evk.gct, m) + SeedLen
    ELSE GadgetCiphertextBinarySize(evk.gct, m)

\* EvaluationKey.WriteTo on a writer with `room` bytes left: the count n and
\* the error it returns, the bytes it really moved, and the stream written.
EvkWriteTo(evk, m, room) ==
    LET g == EncodeGadgetCiphertext(evk.gct, m)
        inc1 == WriteInc(SizeOf(g), room)
        n1 == 0 + inc1
        inc2 == WriteInc(SeedLen, room - n1)
    IN IF WriteFails(SizeOf(g), room)
       THEN [n |-> 0 + inc1, err |-> "write", moved |-> inc1, bytes |-> <<>>]
       ELSE IF IsCompressed(evk)
       THEN IF evk.Seed = <<>>
            THEN [n |-> n1 + inc1, err |-> "the seed is nil", moved |-> inc1,
                  bytes |-> <<>>]
            ELSE IF WriteFails(SeedLen, room - n1)
            THEN [n |-> n1 + inc2, err |-> "write", moved |-> inc1 + inc2,
                  bytes |-> <<>>]
            ELSE [n |-> n1 + inc2, err |-> "nil", moved |-> inc1 + inc2,
                  bytes |-> g \o <<Tok("seed", evk.Seed[1], 0, 0)>>]
       ELSE [n |-> n1, err |-> "nil", moved |-> inc1, bytes |-> g]

\* The writers a key is written to: full inside the payload, full inside
\* the seed, and large enough.
WriterRooms(evk, m) ==
    LET gs == GadgetCiphertextBinarySize(evk.gct, m)
    IN {gs - 1, gs + SeedLen - 1, gs + SeedLen}

WriteTo(k, room) ==
    \E r \in {EvkWriteTo(evks[k], mem, room)} :
       /\ io' = [op |-> "WriteTo", key |-> k, n |-> r.n, moved |-> r.moved,
                 size |-> BinarySize(evks[k], mem), err |-> r.err]
       /\ wire' = IF r.err = "nil"
                  THEN [bytes |-> r.bytes,
                        of |-> IF IsCompressed(evks[k]) THEN "compressed" ELSE "plain",
                        Seed |-> evks[k].Seed, rlk |-> FALSE, gal |-> FALSE]
                  ELSE wire
       /\ UNCHANGED <<evkVars, eksVars, ckgVars, lateVars>>

\* Decoding of a sequence of ring elements that starts at field p.
ParseVec(b, p) ==
    [val |-> [d \in 1..b[p].a |-> b[p + d]], next |-> p + b[p].a + 1]

RECURSIVE ParseCells(_, _, _)
ParseCells(b, p, count) ==
    IF count = 0 THEN [val |-> <<>>, next |-> p]
    ELSE LET v == ParseVec(b, p)
             rest == ParseCells(b, v.next, count - 1)
         IN [val |-> <<v.val>> \o rest.val, next |-> rest.next]

RECURSIVE ParseRows(_, _, _)
ParseRows(b, p, count) ==
    IF count = 0 THEN [val |-> <<>>, next |-> p]
    ELSE LET row == ParseCells(b, p + 1, b[p].a)
             rest == ParseRows(b, row.next, count - 1)
         IN [val |-> <<row.val>> \o rest.val, next |-> rest.next]

DecodeGadgetCiphertext(b) ==
    LET rows == ParseRows(b, 3, b[2].a)
    IN [BaseTwoDecomposition |-> b[1].a, Value |-> rows.val, next |-> rows.next]

\* The ring element that receives position (i, j, c) of a decoded payload:
\* the receiver's element at that position, a new one where it has none.
\* The elements the receiver no longer refers to are garbage and leave the
\* heap.
ReadFromRef(k, old, i, j, c) ==
    IF i <= Len(old) /\ j <= Len(old[i]) /\ c <= Len(old[i][j])
    THEN old[i][j][c] ELSE Ref("evk", k, i, j, c)

\* The Seed field of the receiver after EvaluationKey.ReadFrom has decoded
\* the payload dec from the stream b.
ReadFromSeed(evk, dec, b) ==
    IF Len(dec.Value[1][1]) - 1 = 0 THEN <<b[dec.next].a>> ELSE evk.Seed

\* EvaluationKey.ReadFrom of the stream on the wire.
ReadFrom(k) ==
    /\ wire.of \in {"compressed", "plain"}
    /\ \E dec \in {DecodeGadgetCiphertext(wire.bytes)} :
       \E val \in {[i \in 1..Len(dec.Value) |->
                     [j \in 1..Len(dec.Value[i]) |->
                       [c \in 1..Len(dec.Value[i][j]) |->
                         ReadFromRef(k, evks[k].gct.Value, i, j, c)]]]} :
       LET pos == {q \in (1..Len(val)) \X (1..Len(val[1])) \X (1..2) :
                     q[2] <= Len(val[q[1]]) /\ q[3] <= Len(val[q[1]][q[2]])}
           tgt == {val[q[1]][q[2]][q[3]] : q \in pos}
           tok(r) == LET q == CHOOSE q \in pos : val[q[1]][q[2]][q[3]] = r
                     IN dec.Value[q[1]][q[2]][q[3]]
           dead == {r \in DOMAIN mem : r[1] \in {"evk", "exp"} /\ r[2] = k} \ tgt
       IN /\ mem' = [r \in (DOMAIN mem \ dead) \cup tgt |->
                       IF r \in tgt
                       THEN [lq |-> tok(r).a, lp |-> tok(r).b, v |-> tok(r).c]
                       ELSE mem[r]]
          /\ evks' = [evks EXCEPT
                        ![k].gct = [BaseTwoDecomposition |-> dec.BaseTwoDecomposition,
                                    Value |-> val],
                        ![k].Seed = ReadFromSeed(evks[k], dec, wire.bytes),
                        ![k].hist = "decoded"]
          /\ io' = [op |-> "ReadFrom", key |-> k, n |-> SizeOf(wire.bytes),
                    moved |-> SizeOf(wire.bytes), size |-> SizeOf(wire.bytes),
                    err |-> "nil"]
    /\ UNCHANGED <<bufs, res, wire, eksVars, ckgVars, lateVars>>

\* ------------------------------------ serialization of the key sets
\* A reader that holds `avail` more bytes: a read of size bytes moves
\* Min(size, avail) bytes and fails when they are fewer than size.
ReadInc(size, avail) == Min(size, IF avail < 0 THEN 0 ELSE avail)
ReadFails(size, avail) == size > avail

\* A map is its number of entries, then the entries by increasing key:
\* the key, then the GaloisKey.
RECURSIVE EncodeEntries(_, _)
EncodeEntries(m, keys) ==
    IF keys = {} THEN <<>>
    ELSE LET k == CHOOSE x \in keys : \A y \in keys : x <= y
         IN <<U64(k), Tok("gk", m[k], k, 0)>> \o EncodeEntries(m, keys \ {k})

EncodeMap(m) == <<U64(Cardinality(DOMAIN m))>> \o EncodeEntries(m, DOMAIN m)

\* The payloads of the two slots of a key set (empty for a nil slot).
EncodeRlk(evk) ==
    IF evk.RelinearizationKey # <<>>
    THEN <<Tok("rlk", evk.RelinearizationKey[1], 0, 0)>> ELSE <<>>

EncodeGaloisKeys(evk, mps) ==
    IF evk.GaloisKeys # <<>> THEN EncodeMap(mps[evk.GaloisKeys[1]]) ELSE <<>>

\* The stream of a key set: a presence flag and the relinearization key,
\* a presence flag and the map.
EncodeSet(evk, mps) ==
    <<U8(IF evk.RelinearizationKey # <<>> THEN 1 ELSE 0)>> \o EncodeRlk(evk)
      \o <<U8(IF evk.GaloisKeys # <<>> THEN 1 ELSE 0)>> \o EncodeGaloisKeys(evk, mps)

\* MemEvaluationKeySet.WriteTo on a writer with `room` bytes left: the count
\* n and the error returned, the bytes really moved, the stream written.
MemEvaluationKeySetWriteTo(evk, mps, room) ==
    LET hasRlk == evk.RelinearizationKey # <<>>
        hasGal == evk.GaloisKeys # <<>>
        rlkB == EncodeRlk(evk)
        galB == EncodeGaloisKeys(evk, mps)
        all == EncodeSet(evk, mps)
        inc1 == WriteInc(1, room)
        n1 == 0 + inc1
        inc2 == WriteInc(SizeOf(rlkB), room - n1)
        n2 == IF hasRlk THEN n1 + inc2 ELSE n1
        inc3 == WriteInc(1, room - n2)
        n3 == n2 + inc3
        inc4 == WriteInc(SizeOf(galB), room - n3)
        n4 == IF hasGal THEN n3 + inc4 ELSE n3
        fail(n) == [n |-> n, err |-> "write", moved |-> Min(SizeOf(all), room),
                    bytes |-> <<>>]
    IN IF WriteFails(1, room) THEN fail(inc1)
       ELSE IF hasRlk /\ WriteFails(SizeOf(rlkB), room - n1) THEN fail(n1 + inc2)
       ELSE IF WriteFails(1, room - n2) THEN fail(inc3)
       ELSE IF hasGal /\ WriteFails(SizeOf(galB), room - n3) THEN fail(n3 + inc4)
       ELSE [n |-> n4, err |-> "nil", moved |-> SizeOf(all), bytes |-> all]

\* MemEvaluationKeySet.ReadFrom of the stream b, of which the reader holds
\* the first `cut` bytes: the count n and the error returned, the bytes
\* really moved, and what the receiver evk holds afterwards (its
\* relinearization key, whether a map was allocated, the entries decoded).
MemEvaluationKeySetReadFrom(evk, b, cut) ==
    LET hasKey1 == b[1].a
        rs == IF hasKey1 = 1 THEN TokSize(b[2]) ELSE 0
        p2 == IF hasKey1 = 1 THEN 3 ELSE 2
        hasKey2 == b[p2].a
        galB == SubSeq(b, p2 + 1, Len(b))
        inc1 == ReadInc(1, cut)
        n1 == 0 + inc1
        inc2 == ReadInc(rs, cut - n1)
        n2 == IF hasKey1 = 1 THEN n1 + inc2 ELSE n1
        inc3 == ReadInc(1, cut - n2)
        n3 == n2 + inc3
        inc4 == ReadInc(SizeOf(galB), cut - n3)
        n4 == IF hasKey2 = 1 THEN n3 + inc4 ELSE n3
        count == IF cut - n3 >= 8 THEN galB[1].a ELSE 0
        whole == {e \in 1..count : n3 + SizeOf(SubSeq(galB, 1, 1 + 2 * e)) <= cut}
        entries == [g \in {galB[2 * e].a : e \in whole} |->
                      galB[1 + 2 * (CHOOSE e \in whole : galB[2 * e].a = g)].a]
        rlkRead == IF ReadFails(rs, cut - n1)
                   THEN (IF evk.RelinearizationKey = <<>> THEN <<0>>
                         ELSE evk.RelinearizationKey)
                   ELSE <<b[2].a>>
        out(n, err, rlk, reached) ==
            [n |-> n, err |-> err, moved |-> Min(SizeOf(b), cut), rlk |-> rlk,
             alloc |-> reached /\ evk.GaloisKeys = <<>>,
             entries |-> IF reached THEN entries ELSE <<>>]
    IN IF ReadFails(1, cut) THEN out(inc1, "read", evk.RelinearizationKey, FALSE)
       ELSE IF hasKey1 = 1 /\ ReadFails(rs, cut - n1)
       THEN out(n1 + inc2, "read", rlkRead, FALSE)
       ELSE LET rlk == IF hasKey1 = 1 THEN rlkRead ELSE evk.RelinearizationKey
            IN IF ReadFails(1, cut - n2) THEN out(inc3, "read", rlk, FALSE)
               ELSE IF hasKey2 = 1 /\ ReadFails(SizeOf(galB), cut - n3)
               THEN out(n3 + inc4, "read", rlk, TRUE)
               ELSE out(n4, "nil", rlk, hasKey2 = 1)

\* The byte positions where a stream of these fields is cut: at the start
\* of every field and after the last one.
Cuts(b) == {SizeOf(SubSeq(b, 1, j)) : j \in 0..Len(b)}

\* A caller declares a key set: the zero value, both fields nil.
NewZeroSet ==
    /\ Len(sets) < MaxIoSets
    /\ Len(handles) < MaxHandles
    /\ sets' = Append(sets, [RelinearizationKey |-> <<>>, GaloisKeys |-> <<>>,
                             built |-> <<>>, pristine |-> TRUE])
    /\ handles' = Append(handles, [ptr |-> Len(sets) + 1, copyOf |-> <<>>,
                                   then |-> <<>>])
    /\ UNCHANGED <<gks, maps, phase, threads, notEksVars>>

SetWriteTo(h, room) ==
    \E r \in {MemEvaluationKeySetWriteTo(Fields(sets[handles[h].ptr]), maps, room)} :
       /\ io' = [op |-> "SetWriteTo", key |-> h, n |-> r.n, moved |-> r.moved,
                 size |-> SizeOf(EncodeSet(Fields(sets[handles[h].ptr]), maps)),
                 err |-> r.err]
       /\ wire' = IF r.err = "nil"
                  THEN [bytes |-> r.bytes, of |-> "set", Seed |-> <<>>,
                        rlk |-> sets[handles[h].ptr].RelinearizationKey # <<>>,
                        gal |-> sets[handles[h].ptr].GaloisKeys # <<>>]
                  ELSE wire
       /\ UNCHANGED <<evkVars, eksVars, ckgVars, lateVars>>

SetReadFrom(h, cut) ==
    /\ wire.of = "set"
    /\ LET ptr == handles[h].ptr
       IN \E r \in {MemEvaluationKeySetReadFrom(Fields(sets[ptr]), wire.bytes, cut)} :
          /\ io' = [op |-> "SetReadFrom", key |-> h, n |-> r.n, moved |-> r.moved,
                    size |-> SizeOf(wire.bytes), err |-> r.err]
          /\ maps' = IF r.alloc THEN Append(maps, r.entries)
                     ELSE IF sets[ptr].GaloisKeys = <<>> THEN maps
                     ELSE [maps EXCEPT ![sets[ptr].GaloisKeys[1]] = r.entries @@ @]
          /\ sets' = [sets EXCEPT
                        ![ptr].RelinearizationKey = r.rlk,
                        ![ptr].GaloisKeys = IF r.alloc THEN <<Len(maps) + 1>> ELSE @,
                        ![ptr].pristine = FALSE]
    /\ UNCHANGED <<gks, handles, phase, threads, wire, evkVars, ckgVars, lateVars>>

\* ------------------------------------------- collective key generation
\* sampling.NewPRNG: the key of a new PRNG, different from the key of
\* every PRNG made before.
NewPRNG(smps) == Len(smps) + 1

\* ring.NewGaussianSampler: a sampler over the PRNG stream of that key, at
\* its start.
NewGaussianSampler(key) == [key |-> key, pos |-> 0]

\* GaussianSampler.Read: the small value drawn at the sampler's position.
GaussianRead(smp) == ((smp.key + smp.pos) % 3) - 1

\* The centered representative of a residue modulo m.
Center(x, m) == IF 2 * x > m THEN x - m ELSE x

\* ringqp.Ring.ExtendBasisSmallNormAndCenter: the residue in P of the small
\* value whose residue in Q is x.
ExtendBasisSmallNormAndCenter(x) == Mod(Center(x, QMod), PMod)

\* ringqp.Ring.Add: p3 = p1 + p2, residue by residue.
RingQPAdd(p1, p2, p3, prm) ==
    [Q |-> Mod(p1.Q + p2.Q, QMod),
     P |-> IF prm.hasP THEN Mod(p1.P + p2.P, PMod) ELSE p3.P]

\* ringqp.Ring.MulCoeffsMontgomeryThenSub: p3 = p3 - p1 * p2.
MulCoeffsMontgomeryThenSub(p1, p2, p3, prm) ==
    [Q |-> Mod(p3.Q - p1.Q * p2.Q, QMod),
     P |-> IF prm.hasP THEN Mod(p3.P - p1.P * p2.P, PMod) ELSE p3.P]

NewCKGProtocol(hasP) ==
    /\ ckgs = <<>>
    /\ params' = [hasP |-> hasP, made |-> TRUE]
    /\ samplers' = <<NewGaussianSampler(NewPRNG(samplers))>>
    /\ ckgs' = <<[gaussianSamplerQ |-> 1, copyOf |-> 0]>>
    /\ UNCHANGED <<ring, meta, pk, notCkgVars>>

\* The elements the common reference string may deliver: their residues
\* in Q and in P.
CrpChoices == {<<2, 1>>, <<3, 2>>}

\* SampleCRP: a uniform element read from the common reference string.
SampleCRP(q, p) ==
    /\ ckgs # <<>>
    /\ ~meta.crp
    /\ ring' = [ring EXCEPT ![CrpRef] = [Q |-> q, P |-> IF params.hasP THEN p ELSE 0]]
    /\ meta' = [meta EXCEPT !.crp = TRUE]
    /\ UNCHANGED <<params, ckgs, samplers, pk, notCkgVars>>

\* ShallowCopy with the copy using the sampler of the receiver.
CKGShallowCopyShared(smps, ckg) ==
    [samplers |-> smps, ckg |-> [ckg EXCEPT !.copyOf = 0]]

\* CKGProtocol.ShallowCopy: the samplers after the call and the new
\* instance, which has a sampler of its own over a new PRNG.
CKGShallowCopy(smps, ckg) ==
    [samplers |-> Append(smps, NewGaussianSampler(NewPRNG(smps))),
     ckg |-> [gaussianSamplerQ |-> Len(smps) + 1, copyOf |-> 0]]

CKGShallowCopyCall(c) ==
    /\ Len(ckgs) < MaxCkgs
    /\ LET r == CKGShallowCopy(samplers, ckgs[c])
       IN /\ samplers' = r.samplers
          /\ ckgs' = Append(ckgs, [r.ckg EXCEPT !.copyOf = c])
    /\ UNCHANGED <<params, ring, meta, pk, notCkgVars>>

\* GenShare adding sk * crp to the error.
GenShareThenAdd(rg, prm, e, sk, crp, shareOut) ==
    LET r1 == [rg EXCEPT ![shareOut].Q = Mod(e, QMod)]
        r2 == IF prm.hasP
              THEN [r1 EXCEPT ![shareOut].P = ExtendBasisSmallNormAndCenter(r1[shareOut].Q)]
              ELSE r1
    IN [r2 EXCEPT ![shareOut] =
            [Q |-> Mod(r2[shareOut].Q + r2[sk].Q * r2[crp].Q, QMod),
             P |-> IF prm.hasP THEN Mod(r2[shareOut].P + r2[sk].P * r2[crp].P, PMod)
                   ELSE r2[shareOut].P]]

\* GenShare extending the error to P whether or not P is configured.
GenShareAlwaysExtends(rg, prm, e, sk, crp, shareOut) ==
    LET r1 == [rg EXCEPT ![shareOut].Q = Mod(e, QMod)]
        r2 == [r1 EXCEPT ![shareOut].P = ExtendBasisSmallNormAndCenter(r1[shareOut].Q)]
    IN [r2 EXCEPT ![shareOut] =
            MulCoeffsMontgomeryThenSub(r2[sk], r2[crp], r2[shareOut], prm)]

\* CKGProtocol.GenShare: the heap of ring elements after the call, e being
\* the value the Gaussian sampler delivers.  The error is read into the Q
\* part of shareOut, extended to P when P is configured, and sk * crp is
\* subtracted from it.
GenShare(rg, prm, e, sk, crp, shareOut) ==
    LET r1 == [rg EXCEPT ![shareOut].Q = Mod(e, QMod)]
        r2 == IF prm.hasP
              THEN [r1 EXCEPT ![shareOut].P = ExtendBasisSmallNormAndCenter(r1[shareOut].Q)]
              ELSE r1
    IN [r2 EXCEPT ![shareOut] =
            MulCoeffsMontgomeryThenSub(r2[sk], r2[crp], r2[shareOut], prm)]

\* A GenShare call of instance c for party i, on the state st (the ring
\* elements and the samplers).
GenShareOp(st, c, i, shareOut) ==
    LET g == ckgs[c].gaussianSamplerQ
    IN [ring |-> GenShare(st.ring, params, GaussianRead(st.samplers[g]),
                          SkRef(i), CrpRef, shareOut),
        samplers |-> [st.samplers EXCEPT ![g].pos = @ + 1]]

GenShareCall(c, i, shareOut) ==
    /\ meta.crp
    /\ samplers[ckgs[c].gaussianSamplerQ].pos < MaxReads
    /\ \E r \in {GenShareOp([ring |-> ring, samplers |-> samplers], c, i, shareOut)} :
          /\ ring' = r.ring
          /\ samplers' = r.samplers
    /\ meta' = [meta EXCEPT !.share[shareOut] =
                   [terms |-> 1,
                    es |-> GaussianRead(samplers[ckgs[c].gaussianSamplerQ]),
                    ss |-> Secret(i)]]
    /\ UNCHANGED <<params, ckgs, pk, notCkgVars>>

\* AggregateShares subtracting share2 from share1.
AggregateSharesSub(rg, prm, share1, share2, shareOut) ==
    [rg EXCEPT ![shareOut] =
        [Q |-> Mod(rg[share1].Q - rg[share2].Q, QMod),
         P |-> IF prm.hasP THEN Mod(rg[share1].P - rg[share2].P, PMod)
               ELSE rg[shareOut].P]]

\* CKGProtocol.AggregateShares: the heap of ring elements after the call.
AggregateShares(rg, prm, share1, share2, shareOut) ==
    [rg EXCEPT ![shareOut] = RingQPAdd(rg[share1], rg[share2], rg[shareOut], prm)]

AggregateSharesCall(share1, share2, shareOut) ==
    /\ ckgs # <<>>
    /\ meta.share[share1].terms + meta.share[share2].terms <= MaxTerms
    /\ ring' = AggregateShares(ring, params, share1, share2, shareOut)
    /\ meta' = [meta EXCEPT
                   !.share[shareOut] =
                       [terms |-> meta.share[share1].terms + meta.share[share2].terms,
                        es |-> meta.share[share1].es + meta.share[share2].es,
                        ss |-> meta.share[share1].ss + meta.share[share2].ss],
                   !.inplace = @ \/ shareOut \in {share1, share2}]
    /\ UNCHANGED <<params, ckgs, samplers, pk, notCkgVars>>

\* ringqp.Poly.Copy: the coefficients of the source, in the target's own
\* memory.
PolyCopy(rg, target, source) == [rg EXCEPT ![target] = rg[source]]

\* GenPublicKey storing the share itself in the public key.
GenPublicKeyAlias(rg, pubkey, roundShare, crp) ==
    [ring |-> PolyCopy(rg, pubkey.Value[2], crp),
     Value |-> <<roundShare, pubkey.Value[2]>>]

\* CKGProtocol.GenPublicKey: the heap of ring elements after the call and
\* the elements the public key refers to.
GenPublicKey(rg, pubkey, roundShare, crp) ==
    [ring |-> PolyCopy(PolyCopy(rg, pubkey.Value[1], roundShare), pubkey.Value[2], crp),
     Value |-> pubkey.Value]

GenPublicKeyCall(roundShare) ==
    /\ meta.crp
    /\ meta.share[roundShare].terms > 0
    /\ LET r == GenPublicKey(ring, pk, roundShare, CrpRef)
       IN /\ ring' = r.ring
          /\ pk' = [Value |-> r.Value, made |-> TRUE, of |-> roundShare,
                    share |-> ring[roundShare], crp |-> ring[CrpRef]]
    /\ UNCHANGED <<params, ckgs, samplers, meta, notCkgVars>>

Ckgs == 1..Len(ckgs)

\* The mutable memory a GenShare call writes, and the memory it reads.
GenShareWrites(c, shareOut) == {<<"sampler", ckgs[c].gaussianSamplerQ>>, shareOut}
GenShareReads(c, i) == {<<"sampler", ckgs[c].gaussianSamplerQ>>, SkRef(i), CrpRef}

\* --------------------------------------------------- collective permute

\* One ring operation of a method body: the operation, its context, its
\* operands and its output (ring elements), and one more argument.
Ins(op, ctx, a, b, out, x) == [op |-> op, ctx |-> ctx, a |-> a, b |-> b, out |-> out, x |-> x]

\* The loop of permuteWithIndex from j on: each step reads polIn as the
\* steps before it left it.
RECURSIVE permuteLoop(_, _, _, _, _, _)
permuteLoop(rg, indexMatrix, polIn, index, polOut, j) ==
    IF j >= Len(rg[polIn][1]) THEN rg
    ELSE permuteLoop(
           CHOOSE nxt \in {[r EXCEPT ![polOut][1][indexMatrix[j + 1] + 1] =
                              r[polIn][1][indexMatrix[index[j + 1] + 1] + 1]] : r \in {rg}} : TRUE,
           indexMatrix, polIn, index, polOut, j + 1)
permuteWithIndex(rg, indexMatrix, polIn, index, polOut) ==
    permuteLoop(rg, indexMatrix, polIn, index, polOut, 0)

\* The effect of one operation on the ring elements.
Exec(rg, s) ==
    CASE s.op = "NTT" -> [rg EXCEPT ![s.out] = NTT(s.ctx, rg[s.a], rg[s.out])]
      [] s.op = "InvNTT" -> [rg EXCEPT ![s.out] = InvNTT(s.ctx, rg[s.a], rg[s.out])]
      [] s.op = "Add" -> [rg EXCEPT ![s.out] = RingAdd(s.ctx, rg[s.a], rg[s.b], rg[s.out])]
      [] s.op = "Sub" -> [rg EXCEPT ![s.out] = RingSub(s.ctx, rg[s.a], rg[s.b], rg[s.out])]
      [] s.op = "Neg" -> [rg EXCEPT ![s.out] = RingNeg(s.ctx, rg[s.a], rg[s.out])]
      [] s.op = "MulCoeffsMontgomery" ->
           [rg EXCEPT ![s.out] = MulCoeffsMontgomery(s.ctx, rg[s.a], rg[s.b], rg[s.out])]
      [] s.op = "MulScalarBigint" ->
           [rg EXCEPT ![s.out] = MulScalarBigint(s.ctx, rg[s.a], s.x, rg[s.out])]
      [] s.op = "ReadLvl" -> [rg EXCEPT ![s.out] = ReadLvl(s.ctx, s.x, rg[s.out])]
      [] s.op = "ReadAndAdd" -> [rg EXCEPT ![s.out] = ReadAndAdd(s.ctx, s.x, rg[s.out])]
      [] s.op = "ReadNew" -> [rg EXCEPT ![s.out] = <<Row(s.x)>>]
      [] s.op = "AddP" ->
           [rg EXCEPT ![s.out] =
              [x \in DOMAIN rg[s.out] |->
                 [j \in Coeffs |-> rg[s.out][x][j] + rg[s.a][Len(ContextQ) + x][j]]]]
      [] s.op = "ModDownSplitedPQ" ->
           [rg EXCEPT ![s.out] = ModDownSplitedPQ(rg[s.a], rg[s.b], rg[s.out])]
      [] s.op = "ModDownPQ" -> [rg EXCEPT ![s.out] = ModDownPQ(rg[s.a], rg[s.out])]
      [] s.op = "lift" -> [rg EXCEPT ![s.out] = lift(rg[s.a], rg[s.out])]
      [] s.op = "Scale" -> [rg EXCEPT ![s.out] = Scale(rg[s.a], rg[s.out])]
      [] s.op = "permuteWithIndex" -> permuteWithIndex(rg, s.ctx, s.a, s.x, s.out)

\* A method body: its operations, one after the other.
RECURSIVE Run(_, _)
Run(rg, body) ==
    IF body = <<>> THEN rg
    ELSE Run(CHOOSE nxt \in {Exec(r, Head(body)) : r \in {rg}} : TRUE, Tail(body))

\* NewPermuteProtocol: the three scratch polynomials and the index table.
NewPermuteProtocol(p) ==
    [tmp1 |-> Tmp1Ref(p), tmp2 |-> Tmp2Ref(p), hP |-> HPRef(p),
     indexMatrix |-> IndexMatrix(PermN), calls |-> 0]

\* GenShares, with e and e2 the two errors read from the gaussian sampler
\* and mask the polynomial read from the uniform sampler.
GenShares(pp, sk, ciphertext, crs, permutation, share, e, e2, mask) ==
    LET h0 == share.RefreshShareDecrypt
        h1 == share.RefreshShareRecrypt
        coeffs == CoeffsRef
    IN << Ins("NTT", ContextQ, ciphertext[2], 0, pp.tmp1, 0),
          Ins("MulCoeffsMontgomery", ContextQ, sk, pp.tmp1, h0, 0),
          Ins("InvNTT", ContextQ, h0, 0, h0, 0),
          Ins("MulScalarBigint", ContextQ, h0, 0, h0, PermP),
          Ins("ReadLvl", ContextQP, 0, 0, pp.tmp1, e),
          Ins("Add", ContextQ, h0, pp.tmp1, h0, 0),
          Ins("AddP", ContextP, pp.tmp1, 0, pp.hP, 0),
          Ins("ModDownSplitedPQ", ContextQ, h0, pp.hP, h0, 0),
          Ins("NTT", ContextQP, crs, 0, pp.tmp1, 0),
          Ins("MulCoeffsMontgomery", ContextQP, sk, pp.tmp1, pp.tmp2, 0),
          Ins("Neg", ContextQP, pp.tmp2, 0, pp.tmp2, 0),
          Ins("InvNTT", ContextQP, pp.tmp2, 0, pp.tmp2, 0),
          Ins("ReadAndAdd", ContextQP, 0, 0, pp.tmp2, e2),
          Ins("ModDownPQ", ContextQ, pp.tmp2, 0, h1, 0),
          Ins("ReadNew", ContextT, 0, 0, coeffs, mask),
          Ins("lift", ContextQ, coeffs, 0, pp.tmp1, 0),
          Ins("Add", ContextQ, h0, pp.tmp1, h0, 0),
          Ins("NTT", ContextT, coeffs, 0, coeffs, 0),
          Ins("permuteWithIndex", pp.indexMatrix, coeffs, 0, pp.tmp1, permutation),
          Ins("InvNTT", ContextT, pp.tmp1, 0, coeffs, 0),
          Ins("lift", ContextQ, coeffs, 0, pp.tmp1, 0),
          Ins("Sub", ContextQ, h1, pp.tmp1, h1, 0) >>

\* Aggregate sums share1 and share2 on shareOut.
Aggregate(share1, share2, shareOut) ==
    << Ins("Add", ContextQ, share1.RefreshShareDecrypt, share2.RefreshShareDecrypt,
           shareOut.RefreshShareDecrypt, 0),
       Ins("Add", ContextQ, share1.RefreshShareRecrypt, share2.RefreshShareRecrypt,
           shareOut.RefreshShareRecrypt, 0) >>

Decrypt(ciphertext, shareDecrypt, sharePlaintext) ==
    << Ins("Add", ContextQ, ciphertext[1], shareDecrypt, sharePlaintext, 0) >>

Permute(pp, sharePlaintext, permutation, sharePlaintextOut) ==
    << Ins("Scale", ContextQ, sharePlaintext, 0, sharePlaintextOut, 0),
       Ins("NTT", ContextT, sharePlaintextOut, 0, sharePlaintextOut, 0),
       Ins("permuteWithIndex", pp.indexMatrix, sharePlaintextOut, 0, pp.tmp1, permutation),
       Ins("InvNTT", ContextT, pp.tmp1, 0, sharePlaintextOut, 0),
       Ins("lift", ContextQ, sharePlaintextOut, 0, sharePlaintextOut, 0) >>

Recrypt(sharePlaintext, crs, shareRecrypt, ciphertextOut) ==
    << Ins("Add", ContextQ, sharePlaintext, shareRecrypt, ciphertextOut[1], 0),
       Ins("ModDownPQ", ContextQ, crs, 0, ciphertextOut[2], 0) >>

\* Finalize: the three steps, the plaintext held in tmp1 throughout.
Finalize(pp, ciphertext, permutation, crs, share, ciphertextOut) ==
    Decrypt(ciphertext, share.RefreshShareDecrypt, pp.tmp1)
    \o Permute(pp, pp.tmp1, permutation, pp.tmp1)
    \o Recrypt(pp.tmp1, crs, share.RefreshShareRecrypt, ciphertextOut)

\* The product of two polynomials of the ring over Q (coefficient
\* representation), the secret the ciphertext is encrypted under (the sum
\* of the parties' secrets) and the plaintext scaling factor floor(Q/T).
RingMulQ(a, b) == InvNTTRow([j \in Coeffs |-> (NTTRow(a, PermQ)[j] * NTTRow(b, PermQ)[j]) % PermQ], PermQ)
RECURSIVE SumSecret(_)
SumSecret(n) ==
    IF n = 0 THEN ZeroRow
    ELSE [j \in Coeffs |-> Mod(PermSecret(n)[j] + SumSecret(n - 1)[j], PermQ)]
CollectiveSecret == SumSecret(NParties)
Delta == PermQ \div PermT

\* The batch encoder: slot i of the vector is the NTT coefficient
\* indexMatrix[i] of the plaintext polynomial.
Encode(v) ==
    LET im == IndexMatrix(PermN)
        slot(k) == CHOOSE i \in Coeffs : im[i] = k - 1
    IN InvNTTRow([k \in Coeffs |-> v[slot(k)]], PermT)
Decode(m) ==
    LET im == IndexMatrix(PermN)
        spectral == NTTRow(m, PermT)
    IN [i \in Coeffs |-> spectral[im[i] + 1]]

\* Encryption of the vector v under the collective secret, with second
\* component c1 and error e; decryption under the collective secret.
BfvEncrypt(v, c1, e) ==
    LET m == Encode(v)
        sc1 == RingMulQ(CollectiveSecret, RowMod(c1, PermQ))
    IN << <<[j \in Coeffs |-> Mod(Delta * m[j] + e[j] - sc1[j], PermQ)]>>,
          <<RowMod(c1, PermQ)>> >>
BfvDecrypt(c0, c1) ==
    LET sc1 == RingMulQ(CollectiveSecret, c1[1])
        x == <<[j \in Coeffs |-> (c0[1][j] + sc1[j]) % PermQ]>>
    IN Decode(Scale(x, x)[1])

\* The vector v with its slots permuted: slot j receives slot
\* permutation[j].
Permuted(v, permutation) == [j \in Coeffs |-> v[permutation[j] + 1]]

\* What the model draws its inputs from.
PlainVectors == {<<1, 2, 3, 4>>, <<5, 0, 16, 7>>}
SlotPermutations == {<<0, 1, 2, 3>>, <<1, 0, 2, 3>>, <<1, 2, 3, 0>>}
Identity == <<0, 1, 2, 3>>
CrsChoices == {<<1000, 20000, 38000, 5>>, <<12345, 1, 30303, 777>>}
C1Choice == <<123, 456, 789, 900>>
EncErr == <<1, 0, 0, -1>>

\* The samplers of a protocol instance read a keyed pseudo-random stream:
\* the n-th error and the n-th mask read from the samplers of instance p.
SampleError(p, n) ==
    CASE (p + n) % 3 = 0 -> <<1, 0, -1, 0>>
      [] (p + n) % 3 = 1 -> <<0, -1, 0, 1>>
      [] OTHER -> <<-1, 1, 0, 0>>
SampleMask(p, n) == IF (p + n) % 2 = 0 THEN <<3, 0, 16, 9>> ELSE <<0, 1, 0, 0>>

PpsMade == 1..Len(pps)

NewPermuteProtocolCall ==
    /\ Len(pps) < MaxPps
    /\ pps' = Append(pps, NewPermuteProtocol(Len(pps) + 1))
    /\ UNCHANGED <<pring, pmeta, tabs, notPermVars>>

\* The ciphertext the protocol is run on.
PermEncrypt(v) ==
    /\ ~pmeta.ct
    /\ \E ct \in {BfvEncrypt(v, C1Choice, EncErr)} :
         pring' = [pring EXCEPT ![CtRef(0)] = ct[1], ![CtRef(1)] = ct[2]]
    /\ pmeta' = [pmeta EXCEPT !.ct = TRUE, !.v = Row(v)]
    /\ UNCHANGED <<pps, tabs, notPermVars>>

\* The common reference polynomial, uniform over QP.
PermSampleCRS(a) ==
    /\ ~pmeta.crs
    /\ pring' = [pring EXCEPT ![CrsRef] = SmallRows(ContextQP, a)]
    /\ pmeta' = [pmeta EXCEPT !.crs = TRUE]
    /\ UNCHANGED <<pps, tabs, notPermVars>>

\* Party i generates its share on the protocol instance p, before the
\* shares are aggregated.
GenSharesCall(p, i, permutation) ==
    /\ pmeta.ct /\ pmeta.crs /\ ~pmeta.agg.made
    /\ pps[p].calls < MaxCalls
    /\ \E e \in {SampleError(p, 2 * pps[p].calls)} :
       \E r \in {Run(pring, GenShares(pps[p], PermSkRef(i), <<CtRef(0), CtRef(1)>>, CrsRef,
                                      permutation, RefreshShare(i), e,
                                      SampleError(p, 2 * pps[p].calls + 1),
                                      SampleMask(p, pps[p].calls)))} :
         /\ pring' = [r EXCEPT ![CoeffsRef] = NewPoly(1)]
         /\ pmeta' = [pmeta EXCEPT !.share[i] = [made |-> TRUE, permutation |-> permutation],
                                   !.last = [k |-> pps[p].calls + 1, hP |-> r[HPRef(p)][1],
                                             eP |-> RowMod(e, PermP)]]
    /\ pps' = [pps EXCEPT ![p].calls = @ + 1]
    /\ UNCHANGED <<tabs, notPermVars>>

\* The shares of the parties, summed into the aggregated share.
RECURSIVE AggregateAll(_)
AggregateAll(n) ==
    IF n = 1 THEN Aggregate(RefreshShare(1), RefreshShare(0), RefreshShare(0))
    ELSE AggregateAll(n - 1) \o Aggregate(RefreshShare(0), RefreshShare(n), RefreshShare(0))
AggregateCall ==
    /\ ~pmeta.agg.made
    /\ \A i \in Parties : pmeta.share[i].made
    /\ pring' = Run(pring, AggregateAll(NParties))
    /\ pmeta' = [pmeta EXCEPT !.agg = [made |-> TRUE,
                   permutations |-> {pmeta.share[i].permutation : i \in Parties}]]
    /\ UNCHANGED <<pps, tabs, notPermVars>>

\* A caller that runs the three steps one by one, on polynomials of its own.
DecryptCall ==
    /\ pmeta.agg.made /\ pmeta.seq.step = 0
    /\ pring' = Run(pring, Decrypt(<<CtRef(0), CtRef(1)>>, H0Ref(0), PtRef(0)))
    /\ pmeta' = [pmeta EXCEPT !.seq.step = 1]
    /\ UNCHANGED <<pps, tabs, notPermVars>>
PermuteCall(p, permutation) ==
    /\ pmeta.seq.step = 1
    /\ pring' = Run(pring, Permute(pps[p], PtRef(0), permutation, PtRef(1)))
    /\ pmeta' = [pmeta EXCEPT !.seq = [step |-> 2, permutation |-> permutation]]
    /\ UNCHANGED <<pps, tabs, notPermVars>>
RecryptCall ==
    /\ pmeta.seq.step = 2
    /\ pring' = Run(pring, Recrypt(PtRef(1), CrsRef, H1Ref(0), <<SeqOutRef(0), SeqOutRef(1)>>))
    /\ pmeta' = [pmeta EXCEPT !.seq.step = 3]
    /\ UNCHANGED <<pps, tabs, notPermVars>>

FinalizeCall(p, permutation) ==
    /\ pmeta.agg.made /\ ~pmeta.fin.made
    /\ pring' = Run(pring, Finalize(pps[p], <<CtRef(0), CtRef(1)>>, permutation, CrsRef,
                                    RefreshShare(0), <<OutRef(0), OutRef(1)>>))
    /\ pmeta' = [pmeta EXCEPT !.fin = [made |-> TRUE, permutation |-> permutation,
                                       permutations |-> pmeta.agg.permutations]]
    /\ UNCHANGED <<pps, tabs, notPermVars>>

\* The index tables of protocol instances for several ring degrees, and
\* permuteWithIndex applied with the identity permutation on one of them.
IndexTables == 1..Len(tabs.made)
TestRows(n) == {[j \in 1..n |-> j], [j \in 1..n |-> (7 * j) % 5], [j \in 1..n |-> n - j]}
NewIndexTable(logN) ==
    /\ Len(tabs.made) < MaxTables
    /\ tabs' = [tabs EXCEPT !.made = Append(@, [n |-> 2 ^ logN, indexMatrix |-> IndexMatrix(2 ^ logN)])]
    /\ UNCHANGED <<pps, pring, pmeta, notPermVars>>
PermuteIdentityCall(t, polIn) ==
    /\ \E r \in {permuteWithIndex([in |-> <<polIn>>, out |-> <<[j \in DOMAIN polIn |-> 0]>>],
                                  tabs.made[t].indexMatrix, "in",
                                  [j \in DOMAIN polIn |-> j - 1], "out")} :
         tabs' = [tabs EXCEPT !.copied = TRUE, !.of = t, !.polIn = r.in[1], !.polOut = r.out[1]]
    /\ UNCHANGED <<pps, pring, pmeta, notPermVars>>

\* --------------------------------------------------- SimpleBootstrapper

\* The ciphertexts handed to the bootstrapper: the level of each, and
\* whether its decoding or its encoding fails.
BtpMaxLevel == 1
Outcomes == {"nil", "decode", "encode"}
BtpCiphertexts == [level : 0..BtpMaxLevel, outcome : Outcomes]
RECURSIVE SeqsUpTo(_, _)
SeqsUpTo(S, n) ==
    IF n = 0 THEN {<<>>}
    ELSE SeqsUpTo(S, n - 1) \cup {Append(q, x) : q \in {t \in SeqsUpTo(S, n - 1) : Len(t) = n - 1}, x \in S}

\* Bootstrap: nil and the error when Decode or Encode fails, else the
\* ciphertext resized to the maximum level and encrypted anew, and one
\* more bootstrapping counted. A pointer is a sequence of length 0 (nil)
\* or 1.
Bootstrap(d, ct) ==
    IF ct.outcome = "decode" THEN [ct |-> <<>>, err |-> "decode", Counter |-> d.Counter]
    ELSE IF ct.outcome = "encode" THEN [ct |-> <<>>, err |-> "encode", Counter |-> d.Counter]
    ELSE [ct |-> <<[ct EXCEPT !.level = BtpMaxLevel]>>, err |-> "nil", Counter |-> d.Counter + 1]

\* BootstrapMany from element i on.
RECURSIVE BootstrapManyLoop(_, _, _)
BootstrapManyLoop(d, cts, i) ==
    IF i > Len(cts) THEN [cts |-> cts, err |-> "nil", Counter |-> d.Counter]
    ELSE LET r == Bootstrap(d, cts[i][1])
         IN BootstrapManyLoop([d EXCEPT !.Counter = r.Counter], [cts EXCEPT ![i] = r.ct], i + 1)
BootstrapMany(d, cts) == BootstrapManyLoop(d, cts, 1)

BootstrapCall(ct) ==
    /\ btp.Counter < MaxBootstraps
    /\ \E r \in {Bootstrap(btp, ct)} :
         btp' = [Counter |-> r.Counter, op |-> "Bootstrap", arg |-> <<ct>>, cts |-> <<r.ct>>,
                 err |-> r.err]
    /\ UNCHANGED notBtpVars
BootstrapManyCall(cts) ==
    /\ btp.Counter < MaxBootstraps
    /\ \E r \in {BootstrapMany(btp, [i \in 1..Len(cts) |-> <<cts[i]>>])} :
         btp' = [Counter |-> r.Counter, op |-> "BootstrapMany", arg |-> cts, cts |-> r.cts,
                 err |-> r.err]
    /\ UNCHANGED notBtpVars

\* ------------------------------------------------------------ ring.Poly

\* Poly.N, Poly.Level and the coefficients a Poly holds.
PolyNOf(rws, pol) == IF Len(pol) = 0 THEN 0 ELSE Len(rws[pol[1]])
PolyLevel(pol) == Len(pol) - 1
CoeffsOf(rws, pol) == IF Len(pol) = 0 THEN <<>> ELSE [i \in 1..Len(pol) |-> rws[pol[i]]]

\* Poly.Resize: the rows above the level are dropped, or rows of N zero
\* coefficients are allocated up to the level.
PolyResize(rws, pol, level) ==
    LET N == PolyNOf(rws, pol)
        prevLevel == PolyLevel(pol)
    IN IF prevLevel > level THEN [rows |-> rws, pol |-> SubSeq(pol, 1, level + 1)]
       ELSE IF level > prevLevel
       THEN [rows |-> [r \in RowRefs |->
                         IF r[1] = "new" /\ r[2] > prevLevel /\ r[2] <= level
                         THEN (IF N = 0 THEN NoRow ELSE [j \in 1..N |-> 0]) ELSE rws[r]],
             pol |-> [i \in 1..(level + 1) |-> IF i <= Len(pol) THEN pol[i] ELSE <<"new", i - 1>>]]
       ELSE [rows |-> rws, pol |-> pol]

\* utils.Alias1D: the two slices end at the same element of the same
\* array; copy: the first min(len) elements.
Alias1D(rws, x, y) == Len(rws[x]) # 0 /\ Len(rws[y]) # 0 /\ x = y
CopyRow(dst, src) ==
    SubSeq(src, 1, Min(Len(dst), Len(src))) \o SubSeq(dst, Min(Len(dst), Len(src)) + 1, Len(dst))

\* Poly.CopyLvl from row i on (rows are numbered from 1 here).
RECURSIVE CopyLvlLoop(_, _, _, _, _)
CopyLvlLoop(rws, pol, level, p1, i) ==
    IF i > level + 1 THEN rws
    ELSE CopyLvlLoop(IF Alias1D(rws, pol[i], p1[i]) THEN rws
                     ELSE [rws EXCEPT ![pol[i]] = CopyRow(rws[pol[i]], rws[p1[i]])],
                     pol, level, p1, i + 1)
CopyLvl(rws, pol, level, p1) == CopyLvlLoop(rws, pol, level, p1, 1)

\* Poly.Copy: Resize to the level of p1, then CopyLvl.
PolyCopyFrom(rws, pol, p1) ==
    LET r == PolyResize(rws, pol, PolyLevel(p1))
    IN [rows |-> CopyLvl(r.rows, r.pol, PolyLevel(p1), p1), pol |-> r.pol]

\* Poly.Equal: the same number of rows, each with the same coefficients.
PolyEqual(rws, pol, other) == CoeffsOf(rws, pol) = CoeffsOf(rws, other)

\* The polynomials the model copies: p1 = NewPoly(PolyN, level) with
\* coefficients set, and a target that is a zero-value Poly, a polynomial
\* of its own at some level, or a copy of the struct of p1 (the same rows).
TargetKinds == {<<"zero", 0>>, <<"alias", 0>>} \cup {<<"level", l>> : l \in 0..MaxPolyLevel}
NewPolys(level, c, kind) ==
    /\ ~pols.made
    /\ prows' = [r \in RowRefs |->
                   IF r[1] = "src" /\ r[2] <= level THEN [j \in 1..PolyN |-> c + 2 * r[2] + j]
                   ELSE IF r[1] = "dst" /\ kind[1] = "level" /\ r[2] <= kind[2]
                   THEN [j \in 1..PolyN |-> 7 + r[2] + c * j]
                   ELSE NoRow]
    /\ pols' = [made |-> TRUE,
                p1 |-> [i \in 1..(level + 1) |-> <<"src", i - 1>>],
                pol |-> IF kind[1] = "zero" THEN <<>>
                        ELSE IF kind[1] = "alias" THEN [i \in 1..(level + 1) |-> <<"src", i - 1>>]
                        ELSE [i \in 1..(kind[2] + 1) |-> <<"dst", i - 1>>]]
    /\ cp' = [op |-> "new", level |-> 0, before |-> <<>>]
    /\ UNCHANGED notPolVars
PolyResizeCall(level) ==
    /\ pols.made /\ cp.op = "new"
    /\ prows' = PolyResize(prows, pols.pol, level).rows
    /\ pols' = [pols EXCEPT !.pol = PolyResize(prows, pols.pol, level).pol]
    /\ cp' = [op |-> "Resize", level |-> level, before |-> CoeffsOf(prows, pols.p1)]
    /\ UNCHANGED notPolVars
PolyCopyCall ==
    /\ pols.made /\ cp.op # "Copy"
    /\ prows' = PolyCopyFrom(prows, pols.pol, pols.p1).rows
    /\ pols' = [pols EXCEPT !.pol = PolyCopyFrom(prows, pols.pol, pols.p1).pol]
    /\ cp' = [op |-> "Copy", level |-> PolyLevel(pols.p1), before |-> CoeffsOf(prows, pols.p1)]
    /\ UNCHANGED notPolVars

\* ------------------------------------------------------------ PolyMatrix

\* ringqp.NewPolyVector, PolyVector.Resize and the level of the first
\* polynomial of a vector; a polynomial is known by its shape.
NewQPPoly(N, levelQ, levelP) == [N |-> N, LevelQ |-> levelQ, LevelP |-> levelP]
NewPolyVector(N, levelQ, levelP, size) == [j \in 1..size |-> NewQPPoly(N, levelQ, levelP)]
PolyVectorResize(v, N, levelQ, levelP, size) == [j \in 1..size |-> NewQPPoly(N, levelQ, levelP)]
PolyVectorLevelQ(v) == v[1].LevelQ
PolyVectorLevelP(v) == v[1].LevelP
PolyVectorN(v) == v[1].N

NewPolyMatrix(N, levelQ, levelP, rows, cols) ==
    [i \in 1..rows |-> NewPolyVector(N, levelQ, levelP, cols)]

\* PolyMatrix.LevelQ and LevelP, as written.
PolyMatrixLevelQ(pm) == PolyVectorLevelP(pm[1])
PolyMatrixLevelP(pm) == PolyVectorLevelP(pm[1])
PolyMatrixN(pm) == PolyVectorN(pm[1])

\* PolyMatrix.Resize: every vector resized, then the matrix cut to, or
\* extended to, rows+1 vectors.
PolyMatrixResize(pm, levelQ, levelP, rows, cols) ==
    LET N == PolyMatrixN(pm)
        v == [i \in 1..Len(pm) |-> PolyVectorResize(pm[i], N, levelQ, levelP, cols)]
    IN IF Len(v) > rows THEN SubSeq(v, 1, rows + 1)
       ELSE v \o [i \in 1..(rows + 1 - Len(v)) |-> NewPolyVector(N, levelQ, levelP, cols)]

MatLevels == 0..MaxMatLevel
MatRows == 1..MaxMatRows
MatCols == 1..MaxMatCols
MatN == 4
NewPolyMatrixCall(levelQ, levelP, rows, cols) ==
    /\ mop.op = "init"
    /\ mat' = NewPolyMatrix(MatN, levelQ, levelP, rows, cols)
    /\ mop' = [op |-> "New", N |-> MatN, levelQ |-> levelQ, levelP |-> levelP,
               rows |-> rows, cols |-> cols, ret |-> 0]
    /\ UNCHANGED notMatVars
PolyMatrixLevelQCall ==
    /\ mop.op # "init"
    /\ mop' = [mop EXCEPT !.op = "LevelQ", !.ret = PolyMatrixLevelQ(mat)]
    /\ UNCHANGED <<mat, notMatVars>>
PolyMatrixLevelPCall ==
    /\ mop.op # "init"
    /\ mop' = [mop EXCEPT !.op = "LevelP", !.ret = PolyMatrixLevelP(mat)]
    /\ UNCHANGED <<mat, notMatVars>>
PolyMatrixResizeCall(levelQ, levelP, rows, cols) ==
    /\ mop.op \in {"New", "LevelQ", "LevelP"}
    /\ mat' = PolyMatrixResize(mat, levelQ, levelP, rows, cols)
    /\ mop' = [op |-> "Resize", N |-> PolyMatrixN(mat), levelQ |-> levelQ, levelP |-> levelP,
               rows |-> rows, cols |-> cols, ret |-> Len(mat)]
    /\ UNCHANGED notMatVars

\* -------------------------------------------------------- specifications
\* Evaluation keys: construction, generation, expansion, copy.
Next ==
    \/ NewEvaluationKey
    \/ \E k \in Keys, s \in Seeds : GenCompressedKey(k, s)
    \/ \E d \in 0..1, p \in BufParamChoices : NewBuffer(d, p)
    \/ \E k \in Keys, b \in BufferArgs : Expand(k, b)
    \/ \E k \in Keys : CopyNew(k)

Spec == Init /\ [][Next]_vars

\* The three constructors of the EvaluationKey family.
NextNew ==
    \/ NewEvaluationKey
    \/ NewRelinearizationKey
    \/ NewGaloisKey

SpecNew == Init /\ [][NextNew]_vars

\* Evaluation keys and their encoding: keys are built, seeded, expanded in
\* place and copied, written to a writer and read back into any key.
NextEvkIo ==
    \/ Len(evks) < MaxIoKeys /\ NewEvaluationKey
    \/ \E k \in Keys, s \in Seeds : GenCompressedKey(k, s)
    \/ \E k \in Keys : Expand(k, <<>>)
    \/ \E k \in Keys : Len(evks) < MaxIoKeys /\ CopyNew(k)
    \/ \E k \in Keys : \E room \in WriterRooms(evks[k], mem) : WriteTo(k, room)
    \/ \E k \in Keys : ReadFrom(k)

SpecEvkIo == Init /\ [][NextEvkIo]_vars

\* Key sets and their encoding: sets are built or declared, written to a
\* writer that may fill up, and read back into any set from a reader that
\* may end early.
NextEksIo ==
    \/ \E g \in GalEls : GenGaloisKey(g)
    \/ \E r \in RlkArgs, l \in GaloisKeyLists : NewMemEvaluationKeySet(r, l)
    \/ NewZeroSet
    \/ \E h \in Handles :
         \E room \in Cuts(EncodeSet(Fields(sets[handles[h].ptr]), maps)) :
            SetWriteTo(h, room)
    \/ \E h \in Handles : \E cut \in Cuts(wire.bytes) : SetReadFrom(h, cut)

SpecEksIo == Init /\ [][NextEksIo]_vars

\* Collective key generation: the protocol is set up and copied, the CRP
\* is sampled, the parties generate shares, shares are aggregated (also in
\* place).
NextCkg ==
    \/ \E hasP \in BOOLEAN : NewCKGProtocol(hasP)
    \/ \E u \in CrpChoices : SampleCRP(u[1], u[2])
    \/ \E c \in Ckgs : CKGShallowCopyCall(c)
    \/ \E c \in Ckgs, i \in Parties, o \in Shares : GenShareCall(c, i, o)
    \/ \E a \in Shares, b \in Shares, o \in Shares : AggregateSharesCall(a, b, o)

SpecCkg == Init /\ [][NextCkg]_vars

\* Collective key generation by one instance, up to the public key.
NextCkgPk ==
    \/ \E hasP \in BOOLEAN : NewCKGProtocol(hasP)
    \/ \E u \in CrpChoices : SampleCRP(u[1], u[2])
    \/ \E c \in Ckgs, i \in Parties, o \in Shares : GenShareCall(c, i, o)
    \/ \E a \in Shares, b \in Shares, o \in Shares : AggregateSharesCall(a, b, o)
    \/ \E o \in Shares : GenPublicKeyCall(o)

SpecCkgPk == Init /\ [][NextCkgPk]_vars

\* Key sets: population, shallow copies, then concurrent lookups.
NextEks ==
    \/ \E g \in GalEls : GenGaloisKey(g)
    \/ \E r \in RlkArgs, l \in GaloisKeyLists : NewMemEvaluationKeySet(r, l)
    \/ \E h \in Handles, r \in RlkArgs : SetRelinearizationKey(h, r)
    \/ \E h \in Handles, k \in 1..Len(gks) : AddGaloisKey(h, k)
    \/ \E h \in Handles : ShallowCopyCall(h)
    \/ StartServing
    \/ \E t \in Threads, op \in LookupOps, h \in Handles, g \in {0} \cup GalEls :
           Call(t, op, h, g)
    \/ \E t \in Threads : Return(t)
    \/ \E t \in Threads : Forget(t)

SpecEks == Init /\ [][NextEks]_vars

\* The permute protocol: set-up, share generation, aggregation, the three
\* steps one by one and Finalize.
NextPerm ==
    \/ NewPermuteProtocolCall
    \/ \E v \in PlainVectors : PermEncrypt(v)
    \/ \E a \in CrsChoices : PermSampleCRS(a)
    \/ \E p \in PpsMade, i \in Parties, permutation \in SlotPermutations :
         GenSharesCall(p, i, permutation)
    \/ AggregateCall
    \/ DecryptCall
    \/ \E p \in PpsMade, permutation \in SlotPermutations : PermuteCall(p, permutation)
    \/ RecryptCall
    \/ \E p \in PpsMade, permutation \in SlotPermutations : FinalizeCall(p, permutation)
SpecPerm == Init /\ [][NextPerm]_vars

\* The index tables of several ring degrees.
NextIdx ==
    \/ \E logN \in 0..MaxLogN : NewIndexTable(logN)
    \/ \E t \in IndexTables : \E polIn \in TestRows(tabs.made[t].n) : PermuteIdentityCall(t, polIn)
SpecIdx == Init /\ [][NextIdx]_vars

\* The bootstrapper.
NextBtp ==
    \/ \E ct \in BtpCiphertexts : BootstrapCall(ct)
    \/ \E cts \in SeqsUpTo(BtpCiphertexts, MaxCts) : BootstrapManyCall(cts)
SpecBtp == Init /\ [][NextBtp]_vars

\* Poly: construction, Resize, Copy.
NextPoly ==
    \/ \E level \in 0..MaxPolyLevel, c \in 1..NPolyValues, kind \in TargetKinds :
         NewPolys(level, c, kind)
    \/ \E level \in 0..MaxPolyLevel : PolyResizeCall(level)
    \/ PolyCopyCall
SpecPoly == Init /\ [][NextPoly]_vars

\* PolyMatrix: construction, LevelQ, LevelP, Resize.
NextMat ==
    \/ \E levelQ \in MatLevels, levelP \in MatLevels, rows \in MatRows, cols \in MatCols :
         NewPolyMatrixCall(levelQ, levelP, rows, cols)
    \/ PolyMatrixLevelQCall
    \/ PolyMatrixLevelPCall
    \/ \E levelQ \in MatLevels, levelP \in MatLevels, rows \in MatRows, cols \in MatCols :
         PolyMatrixResizeCall(levelQ, levelP, rows, cols)
SpecMat == Init /\ [][NextMat]_vars

\* ------------------------------------------------------------ properties
Expanded(k) == evks[k].hist = "expanded"

SameShape(k1, k2) ==
    /\ LevelQ(evks[k1].gct, mem) = LevelQ(evks[k2].gct, mem)
    /\ LevelP(evks[k1].gct, mem) = LevelP(evks[k2].gct, mem)
    /\ BaseTwoDecompositionVectorSize(evks[k1].gct) =
       BaseTwoDecompositionVectorSize(evks[k2].gct)

\* C1: every key descending from a seeded compressed key by Expand and
\* CopyNew has a seed if and only if it is compressed.
C1_SeedIffCompressed ==
    \A k \in Keys :
        evks[k].seeded => ((evks[k].Seed # <<>>) <=> IsCompressed(evks[k]))

\* C2: a key as built by a constructor is compressed with a seed when it was
\* requested compressed, and uncompressed without a seed otherwise.
C2_ConstructedKeys ==
    \A k \in Keys :
        evks[k].hist = "new" =>
            /\ evks[k].requested = "compressed" =>
                   IsCompressed(evks[k]) /\ evks[k].Seed # <<>>
            /\ evks[k].requested = "uncompressed" =>
                   ~IsCompressed(evks[k]) /\ evks[k].Seed = <<>>

\* C3: Expand on a key that is not compressed fails with "not compressed",
\* Expand on a compressed key without seed fails with "seed missing", and
\* in both cases no key, buffer or ring element changes.
C3_ExpandRejects ==
    [][res'.op = "Expand" =>
        LET evk == evks[res'.key]
        IN /\ ~IsCompressed(evk) =>
                  /\ res'.err = "evaluation key is not compressed"
                  /\ UNCHANGED <<evks, bufs, mem>>
           /\ (IsCompressed(evk) /\ evk.Seed = <<>>) =>
                  /\ res'.err = "seed is missing"
                  /\ UNCHANGED <<evks, bufs, mem>>]_vars

C3_Witness ==
    /\ res.op = "Expand"
    /\ res.err = "seed is missing"
    /\ res.buf # <<>>
    /\ \E k \in Keys : ~IsCompressed(evks[k])

\* C4: Expand of a compressed, seeded key with a buffer that mismatches in
\* degree, RNS digit count, base-2 digit counts, levelQ or levelP fails with
\* an error naming a mismatching field, and the key stays compressed with
\* every cell unchanged.
C4_BufferMismatch ==
    [][(/\ res'.op = "Expand"
        /\ res'.buf # <<>>
        /\ IsCompressed(evks[res'.key])
        /\ evks[res'.key].Seed # <<>>) =>
        LET g == evks[res'.key].gct
            b == bufs[res'.buf[1]]
            badDegree == Degree(b) # 0
            badRNS == Len(b.Value) # Len(g.Value)
            badTwo == \E i \in 1..Min(Len(b.Value), Len(g.Value)) :
                          Len(b.Value[i]) # Len(g.Value[i])
            badQ == mem[b.Value[1][1][1]].lq # mem[g.Value[1][1][1]].lq
            badP == mem[b.Value[1][1][1]].lp # mem[g.Value[1][1][1]].lp
        IN /\ (badDegree \/ badRNS \/ badTwo \/ badQ \/ badP) =>
                  /\ res'.err # "nil"
                  /\ UNCHANGED <<evks, bufs, mem>>
                  /\ IsCompressed(evks'[res'.key])
           /\ res'.err = "invalid buffer, degree" => badDegree
           /\ res'.err = "invalid buffer BaseRNSDecompositionVectorSize" => badRNS
           /\ res'.err = "invalid buffer BaseTwoDecompositionVectorSize" => badTwo
           /\ res'.err = "invalid buffer levelQ" => badQ
           /\ res'.err = "invalid buffer levelP" => badP
           /\ res'.err \notin {"evaluation key is not compressed", "seed is missing"}]_vars

C4_Witness ==
    /\ res.op = "Expand"
    /\ res.err = "invalid buffer levelP"
    /\ IsCompressed(evks[res.key])
    /\ evks[res.key].Seed # <<>>

\* C5: two keys with the same seed, levels and digit shape, each expanded
\* once, hold identical second components in every cell.
C5_SameSeedSameA ==
    \A k1, k2 \in Keys :
        (/\ Expanded(k1) /\ Expanded(k2)
         /\ evks[k1].Seed = evks[k2].Seed
         /\ SameShape(k1, k2)) =>
            \A c \in Cells(evks[k1].gct) :
                mem[evks[k1].gct.Value[c[1]][c[2]][2]].v =
                mem[evks[k2].gct.Value[c[1]][c[2]][2]].v

\* C6: once a key is expanded, no later call changes a coefficient of any of
\* its ring elements (the key owns them exclusively).
C6_ExpandedKeyOwnsCells ==
    [][\A k \in Keys :
          Expanded(k) =>
              \A c \in Cells(evks[k].gct) :
                  \A d \in 1..2 :
                      mem'[evks[k].gct.Value[c[1]][c[2]][d]] =
                      mem[evks[k].gct.Value[c[1]][c[2]][d]]]_vars

\* ---------------------------------------------------- key-set properties
Distinct(galoisKeys) ==
    \A a, b \in 1..Len(galoisKeys) :
        a # b => gks[galoisKeys[a]].GaloisElement # gks[galoisKeys[b]].GaloisElement

Returning(t) == threads[t].pc = "called" /\ threads'[t].pc = "done"

\* C7: on a set as built by NewMemEvaluationKeySet from Galois keys with
\* distinct elements, GetGaloisKey(g) returns a not-found error and no key
\* when no key of the list has element g, and otherwise returns the key of
\* the list with element g and no error.
C7_GetGaloisKey ==
    \A t \in Threads :
        (threads[t].pc = "done" /\ threads[t].op = "GetGaloisKey") =>
            LET set == sets[handles[threads[t].h].ptr]
                g == threads[t].galEl
                r == threads[t].ret
                given == {set.built[a] : a \in 1..Len(set.built)}
            IN (set.pristine /\ Distinct(set.built)) =>
                  /\ (\A k \in given : gks[k].GaloisElement # g) =>
                         r.gk = <<>> /\ r.err = "GaloisKey is nil"
                  /\ \A k \in given :
                         gks[k].GaloisElement = g =>
                             /\ r.gk = <<k>>
                             /\ r.err = "nil"
                             /\ gks[r.gk[1]].GaloisElement = g

C7_Witness ==
    /\ \A t \in Threads : threads[t].pc = "done" /\ threads[t].op = "GetGaloisKey"
    /\ threads[1].ret.err = "nil"
    /\ threads[2].ret.err = "GaloisKey is nil"
    /\ \A t \in Threads :
          LET set == sets[handles[threads[t].h].ptr]
          IN set.pristine /\ Distinct(set.built) /\ Len(set.built) > 0

\* C8: GetRelinearizationKey returns an error and no key exactly when the
\* slot is empty, otherwise the stored key and no error, and the call leaves
\* the key set unchanged.
C8_GetRelinearizationKey ==
    [][\A t \in Threads :
          (Returning(t) /\ threads[t].op = "GetRelinearizationKey") =>
              LET slot == sets[handles[threads[t].h].ptr].RelinearizationKey
                  r == threads'[t].ret
              IN /\ (slot = <<>>) <=> (r.err # "nil")
                 /\ slot = <<>> => r.rk = <<>>
                 /\ slot # <<>> => r.rk = slot
                 /\ UNCHANGED <<gks, sets, maps, handles>>]_vars

C8_Witness ==
    /\ threads[1].pc = "done" /\ threads[1].op = "GetRelinearizationKey"
    /\ threads[1].ret.err = "nil"
    /\ threads[1].ret.rk # <<>>
    /\ ~sets[handles[threads[1].h].ptr].pristine

\* C9: every lookup gives the same result through a handle made by
\* ShallowCopy as through the handle it was copied from, in every state,
\* whatever was written to the set after the copy was made.
C9_ShallowCopyAliases ==
    \A h \in Handles :
        handles[h].copyOf # <<>> =>
            \A op \in LookupOps, g \in GalEls :
                Lookup(op, handles[h].ptr, g, sets, maps) =
                Lookup(op, handles[handles[h].copyOf[1]].ptr, g, sets, maps)

C9_Witness ==
    \E h \in Handles :
        /\ handles[h].copyOf # <<>>
        /\ LET orig == sets[handles[handles[h].copyOf[1]].ptr]
           IN /\ orig.RelinearizationKey # handles[h].then[1].rlk
              /\ orig.RelinearizationKey # <<>>
              /\ handles[h].then[1].rlk # <<>>
              /\ MapOf(Fields(orig), maps) # handles[h].then[1].gal

\* C10: while the threads look keys up, no step writes to the key set, and
\* every lookup returns what it returns when run alone in that state.
C10_ConcurrentLookups ==
    [][phase = "serve" =>
          /\ UNCHANGED <<gks, sets, maps>>
          /\ \A t \in Threads :
                Returning(t) =>
                    threads'[t].ret =
                        Lookup(threads[t].op, handles[threads[t].h].ptr,
                               threads[t].galEl, sets, maps)]_vars

C10_Witness ==
    /\ phase = "serve"
    /\ threads[1].pc = "called"
    /\ threads[2].pc = "done"
    /\ threads[1].h # threads[2].h
    /\ threads[2].op = "GetGaloisKey"
    /\ threads[2].ret.err = "GaloisKey is nil"
    /\ threads[1].op = "GetGaloisKeysList"

\* ------------------------------------------- properties: serialization
\* C11: a WriteTo of an EvaluationKey that returns no error has written
\* exactly BinarySize() bytes and reports that count, in every state the
\* key can reach by construction, seeding, Expand, CopyNew or decoding.
C11_WriteToWritesBinarySize ==
    (io.op = "WriteTo" /\ io.err = "nil") =>
        (io.n = io.size /\ io.moved = io.size)

\* C12: after ReadFrom has decoded the bytes WriteTo produced for a key K,
\* the receiver has a seed exactly when K is compressed, and that seed is
\* K's, whatever the receiver held before.
C12_ReadFromSeedIffCompressed ==
    (io.op = "ReadFrom" /\ io.err = "nil" /\ evks[io.key].hist = "decoded") =>
        /\ (evks[io.key].Seed # <<>>) <=> (wire.of = "compressed")
        /\ (wire.of = "compressed") => (evks[io.key].Seed = wire.Seed)

\* C13: after MemEvaluationKeySet.ReadFrom has decoded the bytes WriteTo
\* produced for a set X, the receiver has a relinearization key exactly when
\* X has one and a Galois-key map exactly when X has one, whatever it held
\* before: a presence flag of 0 leaves that slot empty.
C13_SetReadFromPresence ==
    (io.op = "SetReadFrom" /\ io.err = "nil") =>
        LET s == sets[handles[io.key].ptr]
        IN /\ (s.RelinearizationKey # <<>>) <=> wire.rlk
           /\ (s.GaloisKeys # <<>>) <=> wire.gal

\* C14: when MemEvaluationKeySet.ReadFrom, MemEvaluationKeySet.WriteTo or
\* EvaluationKey.WriteTo returns an error, the count returned with it is the
\* number of bytes read or written before the failure.
C14_ErrorByteCount ==
    (io.op \in {"SetReadFrom", "SetWriteTo", "WriteTo"} /\ io.err # "nil") =>
        io.n = io.moved

\* ------------------------------- properties: collective key generation
\* C15: AggregateShares is commutative and associative for any three
\* shares, also when the output share is one of the inputs.
C15_AggregateSharesAssocComm ==
    params.made =>
        LET Agg(r, x, y, o) == AggregateShares(r, params, x, y, o)
        IN \A a \in Shares, b \in Shares :
              /\ \A o \in Shares : Agg(ring, a, b, o)[o] = Agg(ring, b, a, o)[o]
              /\ \A c \in Shares \ {a, b} :
                    a # b =>
                      /\ Agg(Agg(ring, a, b, a), a, c, a)[a]
                           = Agg(Agg(ring, b, c, c), a, c, a)[a]
                      /\ Agg(Agg(ring, a, b, c), c, c, c)[c]
                           = Agg(Agg(ring, a, b, a), a, a, a)[a]

C15_Witness ==
    /\ meta.inplace
    /\ params.hasP
    /\ \A a \in Shares : \A b \in Shares \ {a} : ring[a] # ring[b]
    /\ \A a \in Shares : ring[a].Q # 0 /\ ring[a].P # 0
    /\ \E o \in Shares : meta.share[o].terms = 2

\* C16: with one CRP, a share aggregated from GenShare outputs is the share
\* of a virtual party whose secret and error are the sums of the secrets
\* and of the errors: sum(e_i - s_i * crp) = (sum e_i) - (sum s_i) * crp.
C16_AggregateIsVirtualShare ==
    \A o \in Shares :
        meta.share[o].terms >= 2 =>
            /\ ring[o].Q = Mod(meta.share[o].es
                                 - meta.share[o].ss * ring[CrpRef].Q, QMod)
            /\ params.hasP =>
                 ring[o].P = Mod(meta.share[o].es
                                   - meta.share[o].ss * ring[CrpRef].P, PMod)

C16_Witness ==
    \E o \in Shares :
        /\ meta.share[o].terms = 2
        /\ meta.share[o].ss = Secret(1) + Secret(2)
        /\ meta.share[o].es # 0
        /\ params.hasP
        /\ ring[o].P # 0

C18_GenShareOnce ==
    [][\A c \in Ckgs, i \in Parties, o \in Shares :
          (GenShareCall(c, i, o) /\ meta.share[o].terms > 0) =>
             ring'[o] = ring[o]]_vars

GenShareCallsIndependent ==
    \A c1 \in Ckgs, i1 \in Parties, i2 \in Parties, o1 \in Shares :
       \A c2 \in Ckgs \ {c1}, o2 \in Shares \ {o1} :
          LET st == [ring |-> ring, samplers |-> samplers]
          IN /\ GenShareWrites(c1, o1)
                  \cap (GenShareWrites(c2, o2) \cup GenShareReads(c2, i2)) = {}
             /\ GenShareOp(GenShareOp(st, c1, i1, o1), c2, i2, o2)
                  = GenShareOp(GenShareOp(st, c2, i2, o2), c1, i1, o1)

\* A GenShare call changes nothing but what GenShareWrites names, and no
\* call changes the parameters.
GenShareFrame ==
    /\ params.made => params' = params
    /\ \A c \in Ckgs, i \in Parties, o \in Shares :
         GenShareCall(c, i, o) =>
            /\ \A r \in RingRefs \ GenShareWrites(c, o) : ring'[r] = ring[r]
            /\ \A g \in 1..Len(samplers) :
                  <<"sampler", g>> \notin GenShareWrites(c, o) =>
                     samplers'[g] = samplers[g]
            /\ ckgs' = ckgs

\* C20: a CKGProtocol and its shallow copies share only the parameters,
\* which no call changes; each has its own sampler, so GenShare calls of
\* two instances with different output shares touch no common mutable
\* memory, and give the same result in either order.
C20_CopiesShareNothing == [][GenShareFrame]_vars /\ []GenShareCallsIndependent

C20_Witness ==
    /\ Len(ckgs) = 2
    /\ ckgs[2].copyOf = 1
    /\ samplers[1].pos > 0
    /\ samplers[2].pos > 0
    /\ \E a \in Shares : \E b \in Shares \ {a} :
          /\ meta.share[a].terms = 1
          /\ meta.share[b].terms = 1
          /\ meta.share[a].es # meta.share[b].es

\* --------------------------------------- properties: collective permute
\* C21: Finalize writes the same output ciphertext as a caller that runs
\* Decrypt, then Permute, then Recrypt on the same ciphertext, aggregated
\* share, crs and permutation with polynomials of its own, none of them
\* aliased.
C21_FinalizeComposes ==
    (pmeta.fin.made /\ pmeta.seq.step = 3 /\ pmeta.seq.permutation = pmeta.fin.permutation)
    => /\ pring[OutRef(0)] = pring[SeqOutRef(0)]
       /\ pring[OutRef(1)] = pring[SeqOutRef(1)]

\* C22: when every aggregated share was generated with the permutation
\* the result is finalized with, the output ciphertext decrypts to the
\* encrypted vector with its slots permuted (to the vector itself when the
\* permutation is the identity).
C22_PermuteCorrect ==
    (pmeta.fin.made /\ pmeta.fin.permutations = {pmeta.fin.permutation})
    => BfvDecrypt(pring[OutRef(0)], pring[OutRef(1)]) = Permuted(pmeta.v, pmeta.fin.permutation)

\* C27: in every call of GenShares, the first on an instance or a later
\* one, the P-chain part handed to the mod-down of the decrypt-share is
\* the P-chain part of the error sampled in that call.
C27_GenSharesStateless ==
    pmeta.last.k >= 1 => pmeta.last.hP = pmeta.last.eP

\* C28: the index table of every power-of-two ring degree holds every
\* index of 0..N-1 exactly once, two tables built for the same degree are
\* identical, and permuteWithIndex with the identity permutation leaves
\* in its output the coefficients of its input.
C28_IndexTableBijection ==
    /\ \A t \in IndexTables :
         LET im == tabs.made[t].indexMatrix
             n == tabs.made[t].n
         IN /\ DOMAIN im = 1..n
            /\ {im[i] : i \in 1..n} = 0..(n - 1)
            /\ \A i \in 1..n : \A j \in 1..n : im[i] = im[j] => i = j
    /\ \A t1 \in IndexTables : \A t2 \in IndexTables :
         tabs.made[t1].n = tabs.made[t2].n
         => tabs.made[t1].indexMatrix = tabs.made[t2].indexMatrix
    /\ tabs.copied => tabs.polOut = tabs.polIn
C28_Witness ==
    /\ \E t1 \in IndexTables : \E t2 \in IndexTables :
         /\ t1 # t2
         /\ tabs.made[t1].n = tabs.made[t2].n
         /\ tabs.made[t1].n >= 8
    /\ tabs.copied
    /\ \E i \in 1..tabs.made[tabs.of].n : tabs.made[tabs.of].indexMatrix[i] # i - 1
    /\ \E i \in DOMAIN tabs.polIn : tabs.polIn[i] # 0

\* ------------------------- properties: bootstrapper, Poly, PolyMatrix

\* C23: when Bootstrap fails for a ciphertext of the list, BootstrapMany
\* returns an error that is not nil; it never returns a list with a nil
\* ciphertext together with a nil error.
C23_BootstrapManyReturnsError ==
    btp.op = "BootstrapMany"
    => /\ (\E i \in 1..Len(btp.arg) : btp.arg[i].outcome # "nil") => btp.err # "nil"
       /\ (\E i \in 1..Len(btp.cts) : btp.cts[i] = <<>>) => btp.err # "nil"

\* C24: after pol.Copy(p1) the target holds the coefficients of p1 at the
\* level of p1, whatever the target was (a zero-value Poly, a polynomial
\* at a lower or a higher level, the rows of p1 themselves), and p1 holds
\* what it held.
C24_CopyMakesEqual ==
    cp.op = "Copy"
    => /\ PolyEqual(prows, pols.pol, pols.p1)
       /\ PolyLevel(pols.pol) = PolyLevel(pols.p1)
       /\ CoeffsOf(prows, pols.p1) = cp.before

\* C25: LevelQ returns the level in Q of the first polynomial of the
\* matrix, whether that level equals the level in P or not.
C25_LevelQ ==
    mop.op = "LevelQ" => mop.ret = PolyVectorLevelQ(mat[1])

\* C26: after Resize(levelQ, levelP, rows, cols) the matrix has rows rows,
\* whether it had fewer, as many or more before, and is shaped as
\* NewPolyMatrix(N, levelQ, levelP, rows, cols).
C26_ResizeRows ==
    mop.op = "Resize"
    => /\ Len(mat) = mop.rows
       /\ mat = NewPolyMatrix(mop.N, mop.levelQ, mop.levelP, mop.rows, mop.cols)

\* C29: a successful Expand turns every cell Value[i][j] of the key into a
\* vector of two components: the first is the component the cell held
\* before, with the coefficients it had, and the second holds the `a` read
\* for that cell when the cells are visited by i, then by j.
C29_ExpandCells ==
    [][\A k \in Keys :
         (/\ res'.op = "Expand" /\ res'.key = k /\ res'.err = "nil"
          /\ IsCompressed(evks[k]) /\ evks' # evks)
         => /\ Cells(evks'[k].gct) = Cells(evks[k].gct)
            /\ \A c \in Cells(evks[k].gct) :
                 LET old == evks[k].gct.Value[c[1]][c[2]]
                     new == evks'[k].gct.Value[c[1]][c[2]]
                 IN /\ Len(old) = 1
                    /\ Len(new) = 2
                    /\ new[1] = old[1]
                    /\ mem'[new[1]] = mem[old[1]]
                    /\ new[2] # new[1]
                    /\ mem'[new[2]].v =
                         Uniform(ExpandSeed(evks[k]),
                                 Cardinality({d \in Cells(evks[k].gct) :
                                     d[1] < c[1] \/ (d[1] = c[1] /\ d[2] < c[2])}),
                                 LevelQ(evks[k].gct, mem), LevelP(evks[k].gct, mem))]_vars

\* A key of several rows and columns was just expanded into a buffer.
C29_Witness ==
    /\ res.op = "Expand" /\ res.err = "nil" /\ res.buf # <<>>
    /\ evks[res.key].hist = "expanded"
    /\ Len(evks[res.key].gct.Value) > 1
    /\ \E i \in 1..Len(evks[res.key].gct.Value) : Len(evks[res.key].gct.Value[i]) > 1
    /\ \A c \in Cells(evks[res.key].gct) : Len(evks[res.key].gct.Value[c[1]][c[2]]) = 2

====
